---- MODULE Spec2Model ----
(***************************************************************************)
(* Prpc: a registry-based RPC framework.  State machines of the client     *)
(* channel (src/src/channel.cc), the call controller                       *)
(* (src/src/controller.cc), the provider runtime (src/src/provider.cc),    *)
(* the worker pool (src/src/threadpool.cc) and the coordination-store      *)
(* adapter (src/src/zookeeperutil.cc).                                     *)
(*                                                                         *)
(* Each component has its own specification over its own variables:       *)
(*   SpecZk       ZkClient::Start and the session watcher                  *)
(*   SpecChannel  Pchannel::CallMethod run by several caller threads       *)
(*   SpecReg      Pprovider::NotifyService and the registration in Run     *)
(*   SpecServer   the acceptor loop, the workers and HandleClientRequest   *)
(* SpecZk shows that ZkClient::Start, as built, never returns.  The other  *)
(* specifications examine the code that follows a call of Start; in them   *)
(* the call is taken to return once the session is connected, which is the *)
(* adapter's contract.                                                     *)
(***************************************************************************)
EXTENDS Integers, Sequences, FiniteSets, TLC

(***************************************************************************)
(* Bounds of the model.                                                    *)
(***************************************************************************)
MaxCalls == 3
MaxFd == 3
MaxSessionSteps == 5
MaxNotify == 2
MaxForeign == 2
MaxConn == 1
MaxReqs == 2
MaxSrvFd == 2
MaxQueue == 2
MaxWorkers == 2
MaxArgs == 2
MaxZkCalls == 2
MaxPoolThreads == 2
MaxSubmitters == 2
MaxTasks == 3

\* Two caller threads share one channel.
Callers == {1, 2}
FDs == 1..MaxFd
SockIds == 1..MaxCalls

(***************************************************************************)
(* Values of the code.                                                     *)
(***************************************************************************)
NoFd == -1
NoThread == 0

\* A registry value is a string; it is kept as the sequence of its parts so
\* that find(":") is computed on it.
Ep1 == <<"10.0.0.1", ":", "8000">>
Ep2 == <<"10.0.0.2", ":", "8000">>
HostNoColon == <<"10.0.0.1">>
HostEmpty == << >>
HostValues == {HostEmpty, HostNoColon, Ep1, Ep2}
Endpoints == {Ep1, Ep2}

\* std::string::find(":"): the index of the first ":" or npos (0 here).
FindColon(s) ==
  IF \E i \in 1..Len(s) : s[i] = ":"
    THEN CHOOSE i \in 1..Len(s) : s[i] = ":" /\ \A j \in 1..(i - 1) : s[j] # ":"
    ELSE 0

(***************************************************************************)
(* Configuration files and Pconfig::Load, src/src/conf.cc.                 *)
(***************************************************************************)
\* The keys the specification documents, and a thread-pool size.
CfgDocumented ==
  [k \in {"rpcserverip", "rpcserverport", "threadnum", "zookeeperip",
          "zookeeperport"} |->
     CASE k = "rpcserverip" -> "10.0.0.1"
       [] k = "rpcserverport" -> "8000"
       [] k = "threadnum" -> "2"
       [] k = "zookeeperip" -> "10.0.0.9"
       [] OTHER -> "2181"]

\* The keys Run reads.
CfgAsRead ==
  [k \in {"pcserverip", "repcserverport", "zookeeperip", "zookeeperport"} |->
     CASE k = "pcserverip" -> "10.0.0.1"
       [] k = "repcserverport" -> "8000"
       [] k = "zookeeperip" -> "10.0.0.9"
       [] OTHER -> "2181"]

\* A file without the store's address.
CfgNoZk ==
  [k \in {"rpcserverip", "rpcserverport"} |->
     IF k = "rpcserverip" THEN "10.0.0.1" ELSE "8000"]

Configs == {CfgDocumented, CfgAsRead, CfgNoZk}

\* atoi on the strings that occur: no digits give 0.
Atoi(str) ==
  CASE str = "8000" -> 8000
    [] str = "2181" -> 2181
    [] str = "2" -> 2
    [] OTHER -> 0

\* printf("%d") on the numbers that occur.
FormatD(n) ==
  CASE n = 8000 -> "8000"
    [] n = 2181 -> "2181"
    [] n = 2 -> "2"
    [] n = 60029 -> "60029"
    [] OTHER -> "0"

(***************************************************************************)
(* Service objects handed to NotifyService, and the paths of the store.    *)
(***************************************************************************)
\* Two objects share the service name "User".
ServiceObjs == {"user1", "user2", "order"}

\* service->GetDescriptor(): the name and the methods of a service object.
Descriptor(obj) ==
  CASE obj = "user1" -> [name |-> "User", methods |-> {"Login", "Register"}]
    [] obj = "user2" -> [name |-> "User", methods |-> {"Logout"}]
    [] OTHER -> [name |-> "Order", methods |-> {"Create"}]

ServiceNames == {Descriptor(o).name : o \in ServiceObjs}
MethodNames == UNION {Descriptor(o).methods : o \in ServiceObjs}

\* "/" + service and "/" + service + "/" + method, as their components.
ServicePath(sn) == <<sn>>
MethodPath(sn, mn) == <<sn, mn>>
Paths ==
  {ServicePath(sn) : sn \in ServiceNames}
    \cup UNION {{MethodPath(Descriptor(o).name, mn) :
                   mn \in Descriptor(o).methods} : o \in ServiceObjs}

(***************************************************************************)
(* Connections, frames and responses.                                      *)
(***************************************************************************)
Conns == 1..MaxConn
SrvFds == 1..MaxSrvFd
Workers == 1..MaxWorkers

\* A piece of a byte stream: the 4-byte length prefix ("size", n = the
\* header's length), a serialized RpcHeader ("header", n = args_size), a
\* piece of the serialized request ("arg", of = the request it belongs to)
\* or a serialized response ("resp").
Unit(kind, service, method, n, of) ==
  [kind |-> kind, service |-> service, method |-> method, n |-> n, of |-> of]
NoUnit == Unit("", "", "", 0, 0)

\* channel.cc, lines 41-45: send_rpc_str is the length prefix, the header
\* and the serialized request.
Frame(service, method, args) ==
  <<Unit("size", "", "", 1, 0), Unit("header", service, method, Len(args), 0)>>
    \o args

\* The serialized request with identity id, in nargs pieces.
Args(id, nargs) == [i \in 1..nargs |-> Unit("arg", "", "", i, id)]

\* The service and method a client may name: one that is registered, a
\* method the registered object does not have, a service that is not
\* registered.
Targets == {<<"User", "Login">>, <<"User", "Logout">>, <<"Order", "Create">>}

NoRequest == [service |-> "", method |-> "", args |-> << >>]
\* What CallMethod leaves in the controller and the response; serverIdle
\* records, for a receive timeout, that the server had nothing left to do
\* for the connection when the timeout struck.
NoResult ==
  [failed |-> FALSE, errText |-> "", response |-> << >>, serverIdle |-> FALSE]

\* What the handler of a service object writes into the response for a
\* request.
Handler(service, method, args) ==
  Unit("resp", service, method, Len(args),
       IF args = << >> THEN 0 ELSE args[1].of)

\* What HandleClientRequest has allocated for an invocation and what has
\* become of it: the closure's captured clientfd, whether the closure still
\* exists, how often it ran and sent, and how often the request and the
\* response were deleted.
NoInvocation ==
  [built |-> 0, alive |-> FALSE, fd |-> 0, runs |-> 0, sends |-> 0,
   serialized |-> FALSE, request_deleted |-> 0, response_deleted |-> 0]

\* A node of the store; owner is the session of an ephemeral node, 0 for a
\* persistent one.  The provider's session is 1, another client's is 2.
\* No entry of m_serviceMap under a name.
NoService == [present |-> FALSE, m_service |-> "", m_methodMap |-> {}]

NoNode == [exists |-> FALSE, data |-> << >>, owner |-> 0]
Node(data, owner) == [exists |-> TRUE, data |-> data, owner |-> owner]

\* No call of Create or GetData is in progress.
NoCall ==
  [kind |-> "none", path |-> << >>, data |-> << >>, state |-> "0", begun |-> 0]

\* A promise_data that no callback has set: std::pair<std::string, int>.
NoData == [first |-> << >>, second |-> "unset"]

\* The threads a ThreadPool can have, the threads that submit to it, and
\* the tasks they submit, numbered in the order of submission.
PoolWorkers == 1..MaxPoolThreads
Submitters == 1..MaxSubmitters
TaskIds == 1..MaxTasks

\* The shared state of a std::future: of a task that was not accepted, of
\* one that has not run, and of one that returned value or threw what.
NoFuture == [state |-> "none", value |-> 0]
Pending == [state |-> "pending", value |-> 0]
Ready(value) == [state |-> "value", value |-> value]
Thrown(what) == [state |-> "exception", value |-> what]

\* What task k returns, and what it throws when it is one that throws.
TaskResult(k) == k * k
TaskException(k) == k

VARIABLES
  \* ---- client channel (Pchannel) ----
  pc,             \* position of each caller thread inside CallMethod
  calls,          \* number of CallMethod calls started so far
  m_connections,  \* Pchannel::m_connections: endpoint -> fd, NoFd = no entry
  m_mutex,        \* Pchannel::m_mutex: the thread that holds it, or NoThread
  clientfd,       \* CallMethod's local clientfd, per caller
  host_data,      \* CallMethod's local host_data, per caller
  controller,     \* the caller's Pcontroller: [failed, errText]
  done,           \* whether the caller passed a non-null done
  doneRuns,       \* how often done->Run() was called in the current call
  respSet,        \* whether response->ParseFromArray filled the response
  exitPath,       \* which return statement the current call left by
  fdSock,         \* the process's descriptor table: fd -> socket id, 0 = free
  nextSock,       \* the next socket id socket() hands out
  sockFailed,     \* sockets on which a send, recv or parse failure was seen
  mySock,         \* the socket each caller obtained for the current call
  so_rcvtimeo,    \* SO_RCVTIMEO of each socket, as setsockopt left it
  resp,           \* what the peer does with the request a caller has sent
  resp_lens,      \* the lengths of the responses the callee's handlers produce
  resp_len,       \* the length of the response that arrived for a caller, 0 = none
  recv_size,      \* CallMethod's recv_size, per caller
  stale,          \* sockets whose server has gone away since they connected
  \* ---- coordination-store adapter (ZkClient) ----
  zk_pc,          \* position of the thread inside ZkClient::Start
  m_zhandle,      \* ZkClient::m_zhandle: 0 is nullptr
  zh_context,     \* the context zookeeper_init stored in the handle
  m_sem,          \* ZkClient::m_sem
  m_session_expired_cb,  \* whether Start was given a handler
  cbCalls,        \* how often m_session_expired_cb was invoked
  zk_session,     \* the session of the handle, as the library knows it
  zk_events,      \* session events the library has yet to hand to the watcher
  zk_seen,        \* the session states global_watcher has been called with
  zk_steps,       \* session transitions so far
  zk_ops,         \* asynchronous operations queued on the handle
  promise_rc,     \* AsyncContext::promise_rc of the Create in progress
  znodes,         \* the store: path -> node
  foreign_steps,  \* steps other clients of the store have taken
  create_error_logged,  \* whether a Create has written a LOG(ERROR) line
  \* ---- a thread that calls ZkClient::Create and ZkClient::GetData ----
  zc_pc,          \* position of the thread inside Create or GetData
  zc_call,        \* the arguments of the call in progress
  zc_hist,        \* what each finished call returned with, oldest first
  promise_data,   \* AsyncContext::promise_data of the GetData in progress
  get_served,     \* the node as the store held it when it served the read
  \* ---- configuration (Pconfig) ----
  config_map,     \* Pconfig::config_map
  \* ---- provider runtime: registration (Pprovider) ----
  m_serviceMap,   \* Pprovider::m_serviceMap: service name -> ServiceInfo
  notified,       \* the service objects NotifyService was called with
  run_pc,         \* position of the main thread inside Run
  ip,             \* Run's local ip
  port,           \* Run's local port
  thread_num,     \* Run's local thread_num
  server_addr,    \* the address listenfd is bound to, NoAddr before bind
  listening,      \* whether listen(listenfd) has returned 0
  reg_left,       \* services the registration loop has yet to visit
  reg_cur,        \* the service the registration loop is at, "" = none
  reg_mleft,      \* methods of reg_cur the loop has yet to visit
  \* ---- provider runtime: serving (Pprovider, ThreadPool) and its peers ----
  cl_pc,          \* position of the client that uses a connection
  cl_calls,       \* number of requests the client has sent on a connection
  cl_req,         \* the request the client sent on a connection
  cl_result,      \* what the client's CallMethod returned with
  cl_closed,      \* whether the client has closed its end
  wire,           \* request bytes sent and not yet arrived at the server
  inbound,        \* request bytes in the server's socket, not yet read
  outbound,       \* response bytes in the client's socket, not yet read
  conn_srv,       \* the server's end of a connection
  srv_fds,        \* the server's descriptor table: fd -> connection, 0 = free
  tasks,          \* ThreadPool::tasks_: the descriptors of queued handlers
  w_pc,           \* position of each worker inside HandleClientRequest
  w_fd,           \* HandleClientRequest's clientfd, per worker
  w_hsize,        \* HandleClientRequest's header_size, per worker
  w_hdr,          \* the parsed rpcHeader, per worker
  w_args,         \* HandleClientRequest's args_str, per worker
  w_done,         \* the request, response and done closure of the invocation
  \* ---- a ThreadPool, the threads that submit to it and its owner ----
  stop_,          \* ThreadPool::stop_
  tasks_,         \* ThreadPool::tasks_: the queued tasks, oldest first
  workers_,       \* ThreadPool::workers_: position of each worker thread
  tw_task,        \* the worker loop's local task, 0 = none
  ts_pc,          \* position of each submitting thread inside enqueue
  tp_next,        \* the number the next submitted task gets
  tp_kind,        \* what each submitted task does: return or throw
  tp_accepted,    \* the tasks enqueue put into tasks_, in that order
  tp_rejected,    \* the tasks enqueue threw for, and the text it threw
  tp_ran,         \* the tasks workers have run, in that order
  tp_seen,        \* the tasks that had run when each task was submitted
  tp_runs,        \* how often each task has run to its end
  tp_future,      \* the shared state of each task's future
  td_pc,          \* position of the owner inside ~ThreadPool
  td_joined,      \* how many workers ~ThreadPool has joined
  td_queued,      \* the accepted tasks not yet run when ~ThreadPool began
  \* ---- a Pcontroller and the thread that uses it ----
  ctl,            \* the Pcontroller: m_failed, m_errText, m_timeout_ms
  ctl_hist,       \* the operations called on it, oldest first
  ctl_answers,    \* what each IsCanceled call returned, oldest first
  \* ---- Pconfig under repeated loads ----
  cfg_hist,       \* the files LoadConfigFile has read, oldest first
  \* ---- an ObjectPool<TestObject> and the threads that hold its handles ----
  available_,     \* ObjectPool::available_: the idle objects, oldest first
  stats_,         \* ObjectPool::stats_
  shutdown_,      \* ObjectPool::shutdown_
  h_pc,           \* position of each thread inside acquire
  h_obj,          \* the object of each thread's PooledObject, NoObject = null
  h_timeout,      \* acquire's timeout_ms, per thread
  h_from,         \* where the handle's object came from: queue or factory
  h_seen          \* the value the holder read when it received the object

zkVars == <<zk_pc, m_zhandle, zh_context, m_sem, m_session_expired_cb, cbCalls,
            zk_session, zk_events, zk_seen, zk_steps, zk_ops, promise_rc,
            znodes, foreign_steps, create_error_logged>>

zcVars == <<zc_pc, zc_call, zc_hist, promise_data, get_served>>

regVars == <<m_serviceMap, notified, run_pc, ip, port, thread_num, server_addr,
             listening, reg_left, reg_cur, reg_mleft>>

recvVars == <<resp_lens, resp_len, recv_size>>

chanVars == <<pc, calls, m_connections, m_mutex, clientfd, host_data,
              controller, done, doneRuns, respSet, exitPath, fdSock, nextSock,
              sockFailed, mySock, so_rcvtimeo, resp, stale, recvVars>>

srvVars == <<cl_pc, cl_calls, cl_req, cl_result, cl_closed, wire, inbound, outbound,
             conn_srv, srv_fds, tasks, w_pc, w_fd, w_hsize, w_hdr, w_args,
             w_done>>

poolVars == <<stop_, tasks_, workers_, tw_task, ts_pc, tp_next, tp_kind,
              tp_accepted, tp_rejected, tp_ran, tp_seen, tp_runs, tp_future,
              td_pc, td_joined, td_queued>>

ctlVars == <<ctl, ctl_hist, ctl_answers>>

objVars == <<available_, stats_, shutdown_, h_pc, h_obj, h_timeout, h_from,
             h_seen>>

appVars == <<ctlVars, cfg_hist, objVars>>

vars == <<chanVars, zkVars, zcVars, config_map, regVars, srvVars, poolVars,
          appVars>>

\* What the actions of one component leave alone.
otherThanChan == <<zkVars, zcVars, config_map, regVars, srvVars, poolVars,
    appVars>>
otherThanZk == <<chanVars, zcVars, config_map, regVars, srvVars, poolVars,
    appVars>>
otherThanStore == <<chanVars, config_map, regVars, srvVars, poolVars,
    appVars>>
otherThanReg == <<chanVars, zcVars, config_map, srvVars, poolVars,
    appVars>>
otherThanSrv == <<chanVars, zkVars, zcVars, config_map, regVars, poolVars,
    appVars>>
otherThanCtl == <<chanVars, zkVars, zcVars, config_map, regVars, srvVars,
                  poolVars, cfg_hist, objVars>>
otherThanCfg == <<chanVars, zkVars, zcVars, regVars, srvVars, poolVars,
                  ctlVars, objVars>>
otherThanObj == <<chanVars, zkVars, zcVars, config_map, regVars, srvVars,
                  poolVars, ctlVars, cfg_hist>>
otherThanPool == <<chanVars, zkVars, zcVars, config_map, regVars, srvVars,
    appVars>>

\* Pconfig::Load, lines 52-58: the value of the key, "" when it is absent.
Load(key) == IF key \in DOMAIN config_map THEN config_map[key] ELSE ""

(***************************************************************************)
(* Call controller: src/src/controller.cc                                  *)
(***************************************************************************)
\* Pcontroller::Pcontroller(), line 3
DefaultTimeout == 5000
NewController == [failed |-> FALSE, errText |-> "", timeout_ms |-> DefaultTimeout]

\* Pcontroller::Reset, lines 5-8: the timeout is kept.
Reset(c) == [c EXCEPT !.failed = FALSE, !.errText = ""]

\* Pcontroller::SetTimeout, lines 23-25
SetTimeout(c, timeout_ms) == [c EXCEPT !.timeout_ms = timeout_ms]

\* Pcontroller::GetTimeout, lines 27-29
GetTimeout(c) == c.timeout_ms

\* A mutation of SetFailed that records the text and forgets the flag.
SetFailedTextOnly(c, reason) == [c EXCEPT !.errText = reason]

\* Pcontroller::SetFailed
SetFailed(c, reason) == [c EXCEPT !.failed = TRUE, !.errText = reason]

\* A mutation of StartCancel that marks the call failed.
StartCancel_Fails(c) == [c EXCEPT !.failed = TRUE, !.errText = "canceled"]

\* Pcontroller::StartCancel, line 32: an empty body.
StartCancel(c) == c

\* Pcontroller::IsCanceled, lines 33-35
IsCanceled(c) == FALSE

\* Pcontroller::NotifyOnCancel, line 36: an empty body, the callback is
\* neither kept nor run.
NotifyOnCancel(c, callback) == c

(***************************************************************************)
(* The process's descriptors and sockets.                                  *)
(***************************************************************************)
\* socket(2) returns the lowest descriptor that is not open.
FreeFds == {f \in FDs : fdSock[f] = 0}
LowestFreeFd == CHOOSE f \in FreeFds : \A g \in FreeFds : f =< g

\* close(2): closes the socket the descriptor names now; EBADF otherwise.
CloseFd(f) ==
  IF f \in FDs /\ fdSock[f] # 0
    THEN fdSock' = [fdSock EXCEPT ![f] = 0]
    ELSE UNCHANGED fdSock

\* The socket a descriptor names, 0 when the descriptor is not open.
SockOf(f) == IF f \in FDs THEN fdSock[f] ELSE 0

\* A send, recv or parse failure seen on descriptor f.
ObserveFailure(f) ==
  sockFailed' = IF SockOf(f) # 0 THEN sockFailed \cup {SockOf(f)} ELSE sockFailed

\* Lines 100-102: the timeval built from the controller's milliseconds.
Timeval(timeout_ms) ==
  [tv_sec |-> timeout_ms \div 1000, tv_usec |-> (timeout_ms % 1000) * 1000]

\* SO_RCVTIMEO of a new socket; socket(7): a zero timeval means that the
\* receive never times out.
NoTimeout == [tv_sec |-> 0, tv_usec |-> 0]

\* Line 103: setsockopt(clientfd, SOL_SOCKET, SO_RCVTIMEO, &tv); its result
\* is not looked at, and on a descriptor that is not open it sets nothing.
SetRcvTimeo(f, timeout_ms) ==
  so_rcvtimeo' = IF SockOf(f) # 0
                   THEN [so_rcvtimeo EXCEPT ![SockOf(f)] = Timeval(timeout_ms)]
                   ELSE so_rcvtimeo

\* What the peer may do with a request it was sent: answer it, answer with
\* bytes that do not parse, end the connection, or stay silent.
PeerBehaviours == {"reply", "garbage", "reset", "silent"}

(***************************************************************************)
(* Pchannel::CallMethod, src/src/channel.cc:15-139, one action per step.   *)
(***************************************************************************)
\* return: the locals clientfd and host_data go out of scope
LeaveScope(t) ==
  /\ clientfd' = [clientfd EXCEPT ![t] = NoFd]
  /\ host_data' = [host_data EXCEPT ![t] = HostEmpty]
  /\ mySock' = [mySock EXCEPT ![t] = 0]

\* return after controller->SetFailed(reason)
FailReturn(t, reason, path) ==
  /\ controller' = [controller EXCEPT ![t] = SetFailed(@, reason)]
  /\ exitPath' = [exitPath EXCEPT ![t] = path]
  /\ pc' = [pc EXCEPT ![t] = "returned"]
  /\ LeaveScope(t)

\* SetFailed(reason), then the close / lock / erase block of lines 108-111
FailClose(t, reason, path) ==
  /\ controller' = [controller EXCEPT ![t] = SetFailed(@, reason)]
  /\ exitPath' = [exitPath EXCEPT ![t] = path]
  /\ pc' = [pc EXCEPT ![t] = "close_err"]

\* Entry; lines 20-45: serialize the request and the header, build the frame.
CM_Begin(t) ==
  /\ UNCHANGED otherThanChan
  /\ UNCHANGED <<so_rcvtimeo, resp, stale>>
  /\ pc[t] \in {"idle", "returned"}
  /\ calls < MaxCalls
  /\ calls' = calls + 1
  /\ \E d \in BOOLEAN : done' = [done EXCEPT ![t] = d]
  /\ doneRuns' = [doneRuns EXCEPT ![t] = 0]
  /\ respSet' = [respSet EXCEPT ![t] = FALSE]
  /\ resp_len' = [resp_len EXCEPT ![t] = 0]
  /\ recv_size' = [recv_size EXCEPT ![t] = 0]
  /\ UNCHANGED resp_lens
  /\ clientfd' = [clientfd EXCEPT ![t] = NoFd]
  /\ host_data' = [host_data EXCEPT ![t] = HostEmpty]
  /\ mySock' = [mySock EXCEPT ![t] = 0]
  /\ \E ser \in {"ok", "request", "header"} :
       CASE ser = "request" ->
              /\ controller' = [controller EXCEPT
                     ![t] = SetFailed(Reset(@), "serialize request error!")]
              /\ exitPath' = [exitPath EXCEPT ![t] = "serialize_request"]
              /\ pc' = [pc EXCEPT ![t] = "returned"]
         [] ser = "header" ->
              /\ controller' = [controller EXCEPT
                     ![t] = SetFailed(Reset(@), "serialize rpc header error!")]
              /\ exitPath' = [exitPath EXCEPT ![t] = "serialize_header"]
              /\ pc' = [pc EXCEPT ![t] = "returned"]
         [] OTHER ->
              /\ controller' = [controller EXCEPT ![t] = Reset(@)]
              /\ exitPath' = [exitPath EXCEPT ![t] = "none"]
              /\ pc' = [pc EXCEPT ![t] = "resolve"]
  /\ UNCHANGED <<m_connections, m_mutex, fdSock, nextSock, sockFailed>>

\* Lines 47-62: zkCli.Start(), GetData(method_path), find(":").
CM_Resolve(t) ==
  /\ UNCHANGED otherThanChan
  /\ UNCHANGED recvVars
  /\ UNCHANGED <<so_rcvtimeo, resp, stale>>
  /\ pc[t] = "resolve"
  /\ \E hd \in HostValues :
       IF hd = HostEmpty
         THEN FailReturn(t, "/service/method is not exist!", "endpoint_missing")
         ELSE IF FindColon(hd) = 0
           THEN FailReturn(t, "/service/method address is invalid!",
                           "endpoint_invalid")
           ELSE /\ host_data' = [host_data EXCEPT ![t] = hd]
                /\ pc' = [pc EXCEPT ![t] = "lock_lookup"]
                /\ UNCHANGED <<controller, exitPath, clientfd, mySock>>
  /\ UNCHANGED <<calls, m_connections, m_mutex, done, doneRuns,
                 respSet, fdSock, nextSock, sockFailed>>

\* Line 66: std::lock_guard<std::mutex> lock(m_mutex)
CM_LockLookup(t) ==
  /\ UNCHANGED otherThanChan
  /\ UNCHANGED recvVars
  /\ UNCHANGED <<so_rcvtimeo, resp, stale>>
  /\ pc[t] = "lock_lookup"
  /\ m_mutex = NoThread
  /\ m_mutex' = t
  /\ pc' = [pc EXCEPT ![t] = "lookup"]
  /\ UNCHANGED <<calls, m_connections, clientfd, host_data, controller, done,
                 doneRuns, respSet, exitPath, fdSock, nextSock, sockFailed, mySock>>

\* Lines 67-70: look the endpoint up, leave the guarded block.
CM_Lookup(t) ==
  /\ UNCHANGED otherThanChan
  /\ UNCHANGED recvVars
  /\ UNCHANGED <<so_rcvtimeo, resp, stale>>
  /\ pc[t] = "lookup"
  /\ m_mutex = t
  /\ LET fd == m_connections[host_data[t]] IN
       /\ clientfd' = [clientfd EXCEPT ![t] = fd]
       /\ mySock' = [mySock EXCEPT ![t] = SockOf(fd)]
       /\ pc' = [pc EXCEPT ![t] = IF fd = NoFd THEN "socket" ELSE "send"]
  /\ m_mutex' = NoThread
  /\ UNCHANGED <<calls, m_connections, host_data, controller, done, doneRuns,
                 respSet, exitPath, fdSock, nextSock, sockFailed>>

\* Lines 73-77: socket()
CM_Socket(t) ==
  /\ UNCHANGED otherThanChan
  /\ UNCHANGED recvVars
  /\ UNCHANGED <<so_rcvtimeo, resp, stale>>
  /\ pc[t] = "socket"
  /\ \/ /\ FreeFds # {}
        /\ nextSock \in SockIds
        /\ fdSock' = [fdSock EXCEPT ![LowestFreeFd] = nextSock]
        /\ nextSock' = nextSock + 1
        /\ clientfd' = [clientfd EXCEPT ![t] = LowestFreeFd]
        /\ mySock' = [mySock EXCEPT ![t] = nextSock]
        /\ pc' = [pc EXCEPT ![t] = "connect"]
        /\ UNCHANGED <<controller, exitPath, host_data>>
     \/ /\ FailReturn(t, "create socket error!", "socket")
        /\ UNCHANGED <<fdSock, nextSock>>
  /\ UNCHANGED <<calls, m_connections, m_mutex, done, doneRuns,
                 respSet, sockFailed>>

\* Lines 84-86: connect(); on failure SetFailed("connect error!")
CM_Connect(t) ==
  /\ UNCHANGED otherThanChan
  /\ UNCHANGED recvVars
  /\ UNCHANGED <<so_rcvtimeo, resp, stale>>
  /\ pc[t] = "connect"
  /\ \/ /\ SockOf(clientfd[t]) # 0
        /\ pc' = [pc EXCEPT ![t] = "lock_insert"]
        /\ UNCHANGED <<controller, exitPath>>
     \/ /\ controller' = [controller EXCEPT ![t] = SetFailed(@, "connect error!")]
        /\ exitPath' = [exitPath EXCEPT ![t] = "connect"]
        /\ pc' = [pc EXCEPT ![t] = "connect_close"]
  /\ UNCHANGED <<calls, m_connections, m_mutex, clientfd, host_data, done,
                 doneRuns, respSet, fdSock, nextSock, sockFailed,
                 mySock>>

\* Lines 87-88: close(clientfd); return
CM_ConnectClose(t) ==
  /\ UNCHANGED otherThanChan
  /\ UNCHANGED recvVars
  /\ UNCHANGED <<so_rcvtimeo, resp, stale>>
  /\ pc[t] = "connect_close"
  /\ CloseFd(clientfd[t])
  /\ pc' = [pc EXCEPT ![t] = "returned"]
  /\ LeaveScope(t)
  /\ UNCHANGED <<calls, m_connections, m_mutex, controller,
                 done, doneRuns, respSet, exitPath, nextSock, sockFailed>>

\* Line 92: std::lock_guard<std::mutex> lock(m_mutex)
CM_LockInsert(t) ==
  /\ UNCHANGED otherThanChan
  /\ UNCHANGED recvVars
  /\ UNCHANGED <<so_rcvtimeo, resp, stale>>
  /\ pc[t] = "lock_insert"
  /\ m_mutex = NoThread
  /\ m_mutex' = t
  /\ pc' = [pc EXCEPT ![t] = "insert"]
  /\ UNCHANGED <<calls, m_connections, clientfd, host_data, controller, done,
                 doneRuns, respSet, exitPath, fdSock, nextSock, sockFailed, mySock>>

\* Lines 93-94: m_connections[host_data] = clientfd, leave the guarded block.
CM_Insert(t) ==
  /\ UNCHANGED otherThanChan
  /\ UNCHANGED recvVars
  /\ UNCHANGED <<so_rcvtimeo, resp, stale>>
  /\ pc[t] = "insert"
  /\ m_mutex = t
  /\ m_connections' = [m_connections EXCEPT ![host_data[t]] = clientfd[t]]
  /\ m_mutex' = NoThread
  /\ pc' = [pc EXCEPT ![t] = "send"]
  /\ UNCHANGED <<calls, clientfd, host_data, controller, done, doneRuns,
                 respSet, exitPath, fdSock, nextSock, sockFailed,
                 mySock>>

\* A mutation of the send step that takes the pool lock before close().
CM_SendLockBeforeClose(t) ==
  /\ UNCHANGED otherThanChan
  /\ UNCHANGED recvVars
  /\ pc[t] = "send"
  /\ SetRcvTimeo(clientfd[t], GetTimeout(controller[t]))
  /\ UNCHANGED stale
  /\ \/ /\ SockOf(clientfd[t]) # 0
        /\ pc' = [pc EXCEPT ![t] = "recv"]
        /\ \E r \in PeerBehaviours : resp' = [resp EXCEPT ![t] = r]
        /\ UNCHANGED <<controller, exitPath, sockFailed, m_mutex>>
     \/ /\ m_mutex = NoThread
        /\ m_mutex' = t
        /\ FailClose(t, "send error!", "send")
        /\ ObserveFailure(clientfd[t])
        /\ UNCHANGED resp
  /\ UNCHANGED <<calls, m_connections, clientfd, host_data, done,
                 doneRuns, respSet, fdSock, nextSock, mySock>>

\* What send() can return for a frame: the frame's length, a smaller
\* positive count (a short write) or -1; on a descriptor that is not open
\* only -1.
SendReturns(f) == IF SockOf(f) # 0 THEN {"all", "part", "error"} ELSE {"error"}

\* What the peer does about what it was sent: one of PeerBehaviours for a
\* whole frame; for a part of a frame it is left open until the recv.
PeerAfter(sent) == IF sent = "all" THEN PeerBehaviours ELSE {"partial"}

\* Lines 97-112: set the receive timeout, send() once; only -1 is
\* "send error!", any other return value leads on to recv.
CM_Send(t) ==
  /\ UNCHANGED otherThanChan
  /\ UNCHANGED recvVars
  /\ pc[t] = "send"
  /\ SetRcvTimeo(clientfd[t], GetTimeout(controller[t]))
  /\ UNCHANGED stale
  /\ \E sent \in SendReturns(clientfd[t]) :
       IF sent # "error"
         THEN /\ pc' = [pc EXCEPT ![t] = "recv"]
              /\ \E r \in PeerAfter(sent) : resp' = [resp EXCEPT ![t] = r]
              /\ UNCHANGED <<controller, exitPath, sockFailed>>
         ELSE /\ FailClose(t, "send error!", "send")
              /\ ObserveFailure(clientfd[t])
              /\ UNCHANGED resp
  /\ UNCHANGED <<calls, m_connections, m_mutex, clientfd, host_data, done,
                 doneRuns, respSet, fdSock, nextSock, mySock>>

\* What recv(clientfd) meets: the peer of the caller's own socket, the end
\* of the connection when that peer has gone away, any behaviour when the
\* descriptor has come to name another socket, and EBADF when the
\* descriptor is not open.
RecvMeets(t) ==
  IF SockOf(clientfd[t]) = 0 THEN {"ebadf"}
  ELSE IF SockOf(clientfd[t]) \in stale THEN {"reset"}
  ELSE IF SockOf(clientfd[t]) = mySock[t]
    THEN IF resp[t] = "partial" THEN PeerBehaviours ELSE {resp[t]}
  ELSE PeerBehaviours

\* sizeof(recv_buf), line 114, and the lengths of the responses: the
\* shortest, the longest the buffer holds, one byte more, and 64 KiB.
RecvBufSize == 1024
ShortResponse == 1
ResponseLens == {ShortResponse, RecvBufSize, RecvBufSize + 1, 64 * 1024}

\* recv(clientfd, recv_buf, sizeof(recv_buf), 0), line 115, on a response of
\* len bytes that has arrived whole: the bytes the buffer has room for.
RecvChunk(len) == IF len < RecvBufSize THEN len ELSE RecvBufSize

\* response->ParseFromArray(recv_buf, recv_size), line 128, on the first
\* recv_size bytes of a well-formed response of len bytes: the whole
\* response parses; a response cut short parses or not, as the cut falls on
\* the end of a field or inside one.
ParseFromArray(len, size) == IF size = len THEN {TRUE} ELSE BOOLEAN

\* Lines 114-134: recv() once, then response->ParseFromArray.  A receive
\* on a silent peer ends with EAGAIN when the socket's timeout has run
\* out; with a zero timeval it does not end.  A peer that has gone away
\* gives recv_size 0, a descriptor that is not open gives -1.
CM_Recv(t) ==
  /\ UNCHANGED otherThanChan
  /\ pc[t] = "recv"
  /\ \E met \in RecvMeets(t) :
       CASE met = "reply" ->
              \E len \in resp_lens :
                /\ resp_len' = [resp_len EXCEPT ![t] = len]
                /\ recv_size' = [recv_size EXCEPT ![t] = RecvChunk(len)]
                /\ \E parsed \in ParseFromArray(len, RecvChunk(len)) :
                     IF parsed
                       THEN /\ respSet' = [respSet EXCEPT ![t] = TRUE]
                            /\ pc' = [pc EXCEPT ![t] = "done"]
                            /\ UNCHANGED <<controller, exitPath, sockFailed>>
                       ELSE /\ FailClose(t, "parse error!", "parse")
                            /\ ObserveFailure(clientfd[t])
                            /\ UNCHANGED respSet
         [] met = "garbage" ->
              /\ FailClose(t, "parse error!", "parse")
              /\ ObserveFailure(clientfd[t])
              /\ recv_size' = [recv_size EXCEPT ![t] = 1]
              /\ UNCHANGED <<respSet, resp_len>>
         [] met = "silent" ->
              /\ so_rcvtimeo[SockOf(clientfd[t])] # NoTimeout
              /\ FailClose(t, "recv timeout!", "recv_timeout")
              /\ ObserveFailure(clientfd[t])
              /\ recv_size' = [recv_size EXCEPT ![t] = -1]
              /\ UNCHANGED <<respSet, resp_len>>
         [] OTHER ->
              /\ FailClose(t, "recv error!", "recv_error")
              /\ ObserveFailure(clientfd[t])
              /\ recv_size' = [recv_size EXCEPT
                     ![t] = IF met = "reset" THEN 0 ELSE -1]
              /\ UNCHANGED <<respSet, resp_len>>
  /\ resp' = [resp EXCEPT ![t] = "none"]
  /\ UNCHANGED <<so_rcvtimeo, stale, resp_lens>>
  /\ UNCHANGED <<calls, m_connections, m_mutex, clientfd, host_data, done,
                 doneRuns, fdSock, nextSock, mySock>>

\* Lines 108, 122, 130: close(clientfd) after a failure
CM_CloseErr(t) ==
  /\ UNCHANGED otherThanChan
  /\ UNCHANGED recvVars
  /\ UNCHANGED <<so_rcvtimeo, resp, stale>>
  /\ pc[t] = "close_err"
  /\ CloseFd(clientfd[t])
  /\ pc' = [pc EXCEPT ![t] = "lock_erase"]
  /\ UNCHANGED <<calls, m_connections, m_mutex, clientfd, host_data, controller,
                 done, doneRuns, respSet, exitPath, nextSock, sockFailed, mySock>>

\* Lines 109, 123, 131: std::lock_guard<std::mutex> lock(m_mutex)
CM_LockErase(t) ==
  /\ UNCHANGED otherThanChan
  /\ UNCHANGED recvVars
  /\ UNCHANGED <<so_rcvtimeo, resp, stale>>
  /\ pc[t] = "lock_erase"
  /\ m_mutex = NoThread
  /\ m_mutex' = t
  /\ pc' = [pc EXCEPT ![t] = "erase"]
  /\ UNCHANGED <<calls, m_connections, clientfd, host_data, controller, done,
                 doneRuns, respSet, exitPath, fdSock, nextSock, sockFailed, mySock>>

\* Lines 110-111, 124-125, 132-133: m_connections.erase(host_data); return
CM_Erase(t) ==
  /\ UNCHANGED otherThanChan
  /\ UNCHANGED recvVars
  /\ UNCHANGED <<so_rcvtimeo, resp, stale>>
  /\ pc[t] = "erase"
  /\ m_mutex = t
  /\ m_connections' = [m_connections EXCEPT ![host_data[t]] = NoFd]
  /\ m_mutex' = NoThread
  /\ pc' = [pc EXCEPT ![t] = "returned"]
  /\ LeaveScope(t)
  /\ UNCHANGED <<calls, controller, done, doneRuns,
                 respSet, exitPath, fdSock, nextSock, sockFailed>>

\* A mutation of the last step that returns without running done.
CM_DoneSkipped(t) ==
  /\ UNCHANGED otherThanChan
  /\ UNCHANGED recvVars
  /\ UNCHANGED <<so_rcvtimeo, resp, stale>>
  /\ pc[t] = "done"
  /\ exitPath' = [exitPath EXCEPT ![t] = "ok"]
  /\ pc' = [pc EXCEPT ![t] = "returned"]
  /\ LeaveScope(t)
  /\ UNCHANGED <<calls, m_connections, m_mutex, controller,
                 done, doneRuns, respSet, fdSock, nextSock, sockFailed>>

\* Lines 136-139: if (done != nullptr) done->Run(); return
CM_Done(t) ==
  /\ UNCHANGED otherThanChan
  /\ UNCHANGED recvVars
  /\ UNCHANGED <<so_rcvtimeo, resp, stale>>
  /\ pc[t] = "done"
  /\ doneRuns' = [doneRuns EXCEPT ![t] = IF done[t] THEN @ + 1 ELSE @]
  /\ exitPath' = [exitPath EXCEPT ![t] = "ok"]
  /\ pc' = [pc EXCEPT ![t] = "returned"]
  /\ LeaveScope(t)
  /\ UNCHANGED <<calls, m_connections, m_mutex, controller,
                 done, respSet, fdSock, nextSock, sockFailed>>

\* The timeouts callers give their controllers.
Timeouts == {0, 500}

\* Pchannel::Pchannel(false) and the callers before their first call, each
\* with a controller it has called SetTimeout(timeout_ms) on.
ChannelConstructed(timeout_ms) ==
  /\ so_rcvtimeo = [k \in SockIds |-> NoTimeout]
  /\ stale = {}
  /\ resp = [t \in Callers |-> "none"]
  /\ resp_len = [t \in Callers |-> 0]
  /\ recv_size = [t \in Callers |-> 0]
  /\ controller = [t \in Callers |-> SetTimeout(NewController, timeout_ms)]
  /\ pc = [t \in Callers |-> "idle"]
  /\ calls = 0
  /\ m_connections = [h \in Endpoints |-> NoFd]
  /\ m_mutex = NoThread
  /\ clientfd = [t \in Callers |-> NoFd]
  /\ host_data = [t \in Callers |-> HostEmpty]
  /\ done = [t \in Callers |-> FALSE]
  /\ doneRuns = [t \in Callers |-> 0]
  /\ respSet = [t \in Callers |-> FALSE]
  /\ exitPath = [t \in Callers |-> "none"]
  /\ fdSock = [f \in FDs |-> 0]
  /\ nextSock = 1
  /\ sockFailed = {}
  /\ mySock = [t \in Callers |-> 0]

\* A channel whose controllers carry the default timeout and whose callee
\* answers with short responses.
InitChannel == ChannelConstructed(DefaultTimeout) /\ resp_lens = {ShortResponse}

NextChannel ==
  \E t \in Callers :
    \/ CM_Begin(t)
    \/ CM_Resolve(t)
    \/ CM_LockLookup(t)
    \/ CM_Lookup(t)
    \/ CM_Socket(t)
    \/ CM_Connect(t)
    \/ CM_ConnectClose(t)
    \/ CM_LockInsert(t)
    \/ CM_Insert(t)
    \/ CM_Send(t)
    \/ CM_Recv(t)
    \/ CM_CloseErr(t)
    \/ CM_LockErase(t)
    \/ CM_Erase(t)
    \/ CM_Done(t)

\* ZkClient::ZkClient(): m_zhandle(nullptr), sem_init(&m_sem, 0, 0); the
\* store has no node of the provider yet.
InitZk ==
  /\ zk_pc = "idle"
  /\ m_zhandle = 0
  /\ zh_context = "null"
  /\ m_sem = 0
  /\ m_session_expired_cb = FALSE
  /\ cbCalls = 0
  /\ zk_session = "none"
  /\ zk_events = << >>
  /\ zk_seen = {}
  /\ zk_steps = 0
  /\ zk_ops = << >>
  /\ promise_rc = "unset"
  /\ znodes = [p \in Paths |-> NoNode]
  /\ foreign_steps = 0
  /\ create_error_logged = FALSE

\* No thread is inside Create or GetData.
InitZc ==
  /\ zc_pc = "idle"
  /\ zc_call = NoCall
  /\ zc_hist = << >>
  /\ promise_data = NoData
  /\ get_served = NoNode

\* ThreadPool::ThreadPool, lines 3-6: a pool of size 0 gets one worker.
ThreadPoolSize(threads) == IF threads = 0 THEN 1 ELSE threads

\* ThreadPool::ThreadPool(threads), lines 3-25: stop_ is false, the queue is
\* empty and each of the threads started is at the top of its loop; nothing
\* has been submitted and the pool is alive.
PoolConstructed(threads) ==
  /\ stop_ = FALSE
  /\ tasks_ = << >>
  /\ workers_ = [w \in PoolWorkers |->
                   IF w =< ThreadPoolSize(threads) THEN "lock" ELSE "none"]
  /\ tw_task = [w \in PoolWorkers |-> 0]
  /\ ts_pc = [t \in Submitters |-> "idle"]
  /\ tp_next = 1
  /\ tp_kind = [k \in TaskIds |-> "none"]
  /\ tp_accepted = << >>
  /\ tp_rejected = {}
  /\ tp_ran = << >>
  /\ tp_seen = [k \in TaskIds |-> {}]
  /\ tp_runs = [k \in TaskIds |-> 0]
  /\ tp_future = [k \in TaskIds |-> NoFuture]
  /\ td_pc = "alive"
  /\ td_joined = 0
  /\ td_queued = {}

\* A pool of one thread that nothing is submitted to.
InitPool == PoolConstructed(1)

\* No address: listenfd is not bound.
NoAddr == [sin_addr |-> "", sin_port |-> 0]

\* Pprovider before NotifyService and Run.
InitReg ==
  /\ m_serviceMap = [sn \in ServiceNames |-> NoService]
  /\ notified = << >>
  /\ run_pc = "notify"
  /\ ip = ""
  /\ port = 0
  /\ thread_num = 0
  /\ server_addr = NoAddr
  /\ listening = FALSE
  /\ reg_left = {}
  /\ reg_cur = ""
  /\ reg_mleft = {}

\* No client has connected; ThreadPool's queue is empty and its workers wait.
InitServing ==
  /\ cl_pc = [c \in Conns |-> "idle"]
  /\ cl_calls = [c \in Conns |-> 0]
  /\ cl_req = [c \in Conns |-> NoRequest]
  /\ cl_result = [c \in Conns |-> NoResult]
  /\ cl_closed = [c \in Conns |-> FALSE]
  /\ wire = [c \in Conns |-> << >>]
  /\ inbound = [c \in Conns |-> << >>]
  /\ outbound = [c \in Conns |-> << >>]
  /\ conn_srv = [c \in Conns |-> "none"]
  /\ srv_fds = [f \in SrvFds |-> 0]
  /\ tasks = << >>
  /\ w_pc = [w \in Workers |-> "idle"]
  /\ w_fd = [w \in Workers |-> 0]
  /\ w_hsize = [w \in Workers |-> 0]
  /\ w_hdr = [w \in Workers |-> NoUnit]
  /\ w_args = [w \in Workers |-> << >>]
  /\ w_done = [w \in Workers |-> NoInvocation]

\* Papplication::Init has loaded one of the configuration files.
InitConfig == config_map \in Configs

(***************************************************************************)
(* A Pcontroller used on its own: src/src/controller.cc                    *)
(***************************************************************************)
MaxCtlOps == 3
Reasons == {"connect error!", "recv error!"}
CtlTimeouts == {0, 500, DefaultTimeout}

InitCtl ==
  /\ ctl = NewController
  /\ ctl_hist = << >>
  /\ ctl_answers = << >>

\* One call of an operation that writes the controller.
CtlCall(op, c) ==
  /\ Len(ctl_hist) < MaxCtlOps
  /\ ctl' = c
  /\ ctl_hist' = Append(ctl_hist, op)
  /\ UNCHANGED ctl_answers
  /\ UNCHANGED otherThanCtl

Ctl_Reset == CtlCall("Reset", Reset(ctl))

Ctl_SetFailed == \E reason \in Reasons : CtlCall("SetFailed", SetFailed(ctl, reason))

Ctl_SetTimeout ==
  \E timeout_ms \in CtlTimeouts : CtlCall("SetTimeout", SetTimeout(ctl, timeout_ms))

Ctl_StartCancel == CtlCall("StartCancel", StartCancel(ctl))

Ctl_NotifyOnCancel == CtlCall("NotifyOnCancel", NotifyOnCancel(ctl, "callback"))

Ctl_IsCanceled ==
  /\ Len(ctl_hist) < MaxCtlOps
  /\ ctl_answers' = Append(ctl_answers, IsCanceled(ctl))
  /\ ctl_hist' = Append(ctl_hist, "IsCanceled")
  /\ UNCHANGED ctl
  /\ UNCHANGED otherThanCtl

NextController ==
  \/ Ctl_Reset
  \/ Ctl_SetFailed
  \/ Ctl_SetTimeout
  \/ Ctl_StartCancel
  \/ Ctl_NotifyOnCancel
  \/ Ctl_IsCanceled

(***************************************************************************)
(* Pconfig under repeated loads: src/src/conf.cc, src/src/application.cc   *)
(***************************************************************************)
\* A line of a file is the sequence of its parts: words, " ", "#", "=" and
\* the newline "\n".
RECURSIVE StrOf(_)
StrOf(parts) ==
  IF parts = << >> THEN "" ELSE Head(parts) \o StrOf(Tail(parts))

\* std::string::find(c, from): the index of the first c at or after from,
\* 0 for npos.
FindPart(buf, c, from) ==
  IF \E i \in from..Len(buf) : buf[i] = c
    THEN CHOOSE i \in from..Len(buf) :
           buf[i] = c /\ \A j \in from..(i - 1) : buf[j] # c
    ELSE 0

\* Pconfig::Trim, lines 60-70: the blanks at both ends are cut off; a
\* buffer of blanks only is left as it is.
Trim(buf) ==
  LET NotBlank(b) == {i \in 1..Len(b) : b[i] # " "}
      first == IF NotBlank(buf) = {} THEN 0
               ELSE CHOOSE i \in NotBlank(buf) : \A j \in NotBlank(buf) : i =< j
      cut == IF first # 0 THEN SubSeq(buf, first, Len(buf)) ELSE buf
      last == IF NotBlank(cut) = {} THEN 0
              ELSE CHOOSE i \in NotBlank(cut) : \A j \in NotBlank(cut) : j =< i
  IN  IF last # 0 THEN SubSeq(cut, 1, last) ELSE cut

\* What the loop body makes of one line, lines 23-38: nothing for a comment,
\* an empty line or a line without "=", else the key and the value.
NoEntry == [entry |-> FALSE, key |-> "", value |-> ""]
ParseLine(line) ==
  LET read_buf == Trim(line)
      index == FindPart(read_buf, "=", 1)
      endindex == FindPart(read_buf, "\n", index)
      until == IF endindex = 0 THEN Len(read_buf) ELSE endindex - 1
  IN  IF read_buf = << >> \/ read_buf[1] = "#" THEN NoEntry
      ELSE IF index = 0 THEN NoEntry
      ELSE [entry |-> TRUE,
            key |-> StrOf(Trim(SubSeq(read_buf, 1, index - 1))),
            value |-> StrOf(Trim(SubSeq(read_buf, index + 1, until)))]

\* std::unordered_map::insert, line 40: a key the map holds keeps its value.
ConfigInsert(map, key, value) ==
  IF key \in DOMAIN map THEN map
  ELSE [k \in DOMAIN map \cup {key} |-> IF k = key THEN value ELSE map[k]]

\* The fgets loop, lines 22-41, over the lines of the file.
RECURSIVE LoadLines(_, _)
LoadLines(map, lines) ==
  IF lines = << >> THEN map
  ELSE LET e == ParseLine(Head(lines))
       IN  LoadLines(IF e.entry THEN ConfigInsert(map, e.key, e.value) ELSE map,
                     Tail(lines))

\* A file on disk: whether fopen finds it, and its lines.
FileOf(lines) == [exists |-> TRUE, lines |-> lines]
Missing == [exists |-> FALSE, lines |-> << >>]

\* The two files of testConfigReload, src/tests/test_config.cc lines 122-137,
\* and a file with a comment, blanks and a line without "=".
FileFirst ==
  FileOf(<< <<"key1", "=", "value1", "\n">>, <<"key2", "=", "value2", "\n">> >>)
FileSecond ==
  FileOf(<< <<"key1", "=", "new_value1", "\n">>,
            <<"key3", "=", "value3", "\n">> >>)
FileComments ==
  FileOf(<< <<"#", " ", "key2", "=", "hidden", "\n">>,
            <<" ", "key2", " ", "=", " ", "other2", " ", "\n">>,
            <<"\n">>,
            <<"key4", "\n">> >>)
Files == {FileFirst, FileSecond, FileComments, Missing}
ConfigKeys == {"key1", "key2", "key3", "key4"}

\* Pconfig::LoadConfigFile, lines 5-49: a file that cannot be opened leaves
\* the map as it is, the map is not emptied before the lines are read.
LoadConfigFile(map, file) ==
  IF ~file.exists THEN map ELSE LoadLines(map, file.lines)

\* Papplication::Init, src/src/application.cc lines 13-53: the file named
\* after "-i" is loaded into m_config; without it nothing is loaded.
NoArgs == <<"command">>
NoOptarg == <<"command", "-i">>
WithFile(file) == <<"command", "-i", file>>
ApplicationInit(map, argv) ==
  IF Len(argv) < 2 THEN map
  ELSE IF argv[2] # "-i" \/ Len(argv) < 3 THEN map
  ELSE LoadConfigFile(map, argv[3])

\* Pconfig::Load on a map, lines 52-58.
LoadFrom(map, key) == IF key \in DOMAIN map THEN map[key] ELSE ""

MaxLoads == 3
EmptyMap == [k \in {} |-> ""]

\* A Pconfig that has loaded nothing.
InitCfgHist == cfg_hist = << >>

Cfg_LoadConfigFile ==
  /\ Len(cfg_hist) < MaxLoads
  /\ \E file \in Files :
       /\ config_map' = LoadConfigFile(config_map, file)
       /\ cfg_hist' = Append(cfg_hist, [op |-> "LoadConfigFile", argc |-> 0,
                                     file |-> file])
  /\ UNCHANGED otherThanCfg

App_Init ==
  /\ Len(cfg_hist) < MaxLoads
  /\ \E file \in Files :
       /\ config_map' = ApplicationInit(config_map, WithFile(file))
       /\ cfg_hist' = Append(cfg_hist, [op |-> "Init", argc |-> 3, file |-> file])
  /\ UNCHANGED otherThanCfg

App_InitNoFile ==
  /\ Len(cfg_hist) < MaxLoads
  /\ \E argv \in {NoArgs, NoOptarg} :
       /\ config_map' = ApplicationInit(config_map, argv)
       /\ cfg_hist' = Append(cfg_hist, [op |-> "Init", argc |-> Len(argv),
                                     file |-> Missing])
  /\ UNCHANGED otherThanCfg

NextConfig ==
  \/ Cfg_LoadConfigFile
  \/ App_Init
  \/ App_InitNoFile

(***************************************************************************)
(* ObjectPool<TestObject>: src/src/include/object_pool.h and the object of *)
(* src/tests/test_object_pool.cc                                           *)
(***************************************************************************)
MaxHolders == 3
Holders == 1..MaxHolders
InitialSize == 1
MaxSize == 2
MaxAcquires == 3
AcquireTimeouts == {0, 100}

\* TestObject, test_object_pool.cc lines 13-24; id tells the objects apart.
NoObject == [id |-> 0, value |-> 0, data |-> ""]
NewObject(id) == [id |-> id, value |-> 0, data |-> ""]

\* A mutation of the reset function that leaves the object as it is.
ResetObject_Kept(obj) == obj

\* TestObject::reset, lines 19-22
ResetObject(obj) == [obj EXCEPT !.value = 0, !.data = ""]

\* What a holder writes, testBasicFunctionality lines 40-41.
WrittenObject(obj) == [obj EXCEPT !.value = 42, !.data = "test"]

\* Every pool of the repository is constructed with a reset function
\* (message_pool.h lines 207-215, test_object_pool.cc lines 31-35).
reset_ == TRUE

\* The counters are std::atomic<size_t> and std::atomic<uint64_t>, lines
\* 43-52.  A counter is represented by the integer of least magnitude that
\* is congruent to it modulo 2^64, so that -1 stands for 2^64 - 1, the value
\* fetch_sub(1) leaves in a counter that was 0; sums of counters are taken
\* modulo 2^64 in the same representation.
Underflowed(counter) == counter < 0

\* a >= b for a size_t a in that representation and a small b.
SizeGe(a, b) == Underflowed(a) \/ a >= b

NoStatistics ==
  [total_created |-> 0, total_acquired |-> 0, total_returned |-> 0,
   total_destroyed |-> 0, cache_hits |-> 0, cache_misses |-> 0,
   current_size |-> 0, active_objects |-> 0]

NotSeen == [before |-> NoObject, after |-> NoObject]

\* ObjectPool::ObjectPool, lines 135-155: initial_size objects are created
\* and queued.
ObjectPoolConstructed(initial_size) ==
  /\ available_ = [i \in 1..initial_size |-> NewObject(i)]
  /\ stats_ = [NoStatistics EXCEPT !.total_created = initial_size,
                                   !.current_size = initial_size]
  /\ shutdown_ = FALSE
  /\ h_pc = [h \in Holders |-> "idle"]
  /\ h_obj = [h \in Holders |-> NoObject]
  /\ h_timeout = [h \in Holders |-> 0]
  /\ h_from = [h \in Holders |-> "none"]
  /\ h_seen = [h \in Holders |-> NotSeen]

InitObjectPool == ObjectPoolConstructed(InitialSize)

\* The calls of acquire begun so far: each finished one counted one hit or
\* one miss.
AcquiresBegun ==
  stats_.cache_hits + stats_.cache_misses
    + Cardinality({h \in Holders : h_pc[h] # "idle"})

\* acquire, lines 168-175 and 190-197, under the mutex: an idle object is
\* taken from the queue, else the pool is full and the call gives up or
\* waits, else a new object is to be created.
Acquire_Begin(h) ==
  /\ UNCHANGED otherThanObj
  /\ h_pc[h] = "idle"
  /\ h_obj[h] = NoObject
  /\ AcquiresBegun < MaxAcquires
  /\ \E timeout_ms \in AcquireTimeouts :
       /\ h_timeout' = [h_timeout EXCEPT ![h] = timeout_ms]
       /\ IF available_ # << >>
            THEN /\ h_obj' = [h_obj EXCEPT ![h] = Head(available_)]
                 /\ available_' = Tail(available_)
                 /\ h_pc' = [h_pc EXCEPT ![h] = "taken"]
            ELSE /\ UNCHANGED <<h_obj, available_>>
                 /\ h_pc' = [h_pc EXCEPT ![h] =
                      IF SizeGe(stats_.current_size + stats_.active_objects,
                                MaxSize)
                        THEN IF timeout_ms = 0 THEN "miss" ELSE "wait"
                        ELSE "create"]
  /\ UNCHANGED <<stats_, shutdown_, h_from, h_seen>>

\* acquire, lines 177-187 and 208-218, after the unlock: the object is
\* reset, the statistics are updated and the handle is returned.
Acquire_Reset(h) ==
  /\ UNCHANGED otherThanObj
  /\ h_pc[h] = "taken"
  /\ LET obj == IF reset_ /\ h_obj[h] # NoObject
                  THEN ResetObject(h_obj[h]) ELSE h_obj[h]
     IN  /\ h_obj' = [h_obj EXCEPT ![h] = obj]
         /\ h_seen' = [h_seen EXCEPT ![h] = [before |-> h_obj[h], after |-> obj]]
  /\ stats_' = [stats_ EXCEPT !.total_acquired = @ + 1, !.cache_hits = @ + 1,
                              !.active_objects = @ + 1, !.current_size = @ - 1]
  /\ h_from' = [h_from EXCEPT ![h] = "queue"]
  /\ h_pc' = [h_pc EXCEPT ![h] = "idle"]
  /\ UNCHANGED <<available_, shutdown_, h_timeout>>

\* acquire, lines 198-207: wait_until returns when an object is idle, the
\* pool is shut down or the deadline has passed.
Acquire_Wake(h) ==
  /\ UNCHANGED otherThanObj
  /\ h_pc[h] = "wait"
  /\ IF available_ # << >>
       THEN /\ h_obj' = [h_obj EXCEPT ![h] = Head(available_)]
            /\ available_' = Tail(available_)
            /\ h_pc' = [h_pc EXCEPT ![h] = "taken"]
       ELSE /\ UNCHANGED <<h_obj, available_>>
            /\ h_pc' = [h_pc EXCEPT ![h] = "miss"]
  /\ UNCHANGED <<stats_, shutdown_, h_timeout, h_from, h_seen>>

\* acquire, lines 193-195 and 222-224: a miss is counted and an empty handle
\* is returned.
Acquire_Miss(h) ==
  /\ UNCHANGED otherThanObj
  /\ h_pc[h] = "miss"
  /\ stats_' = [stats_ EXCEPT !.cache_misses = @ + 1]
  /\ h_pc' = [h_pc EXCEPT ![h] = "idle"]
  /\ UNCHANGED <<available_, shutdown_, h_obj, h_timeout, h_from, h_seen>>

\* acquire, lines 227-237, and createObject, lines 332-342: the factory
\* makes an object, which is counted and returned.
Acquire_Create(h) ==
  /\ UNCHANGED otherThanObj
  /\ h_pc[h] = "create"
  /\ LET obj == NewObject(stats_.total_created + 1)
     IN  /\ h_obj' = [h_obj EXCEPT ![h] = obj]
         /\ h_seen' = [h_seen EXCEPT ![h] = [before |-> obj, after |-> obj]]
  /\ stats_' = [stats_ EXCEPT !.total_created = @ + 1, !.total_acquired = @ + 1,
                              !.cache_misses = @ + 1, !.active_objects = @ + 1]
  /\ h_from' = [h_from EXCEPT ![h] = "factory"]
  /\ h_pc' = [h_pc EXCEPT ![h] = "idle"]
  /\ UNCHANGED <<available_, shutdown_, h_timeout>>

\* The holder of a handle writes its object.
Holder_Write(h) ==
  /\ UNCHANGED otherThanObj
  /\ h_pc[h] = "idle"
  /\ h_obj[h] # NoObject
  /\ h_obj[h] # WrittenObject(h_obj[h])
  /\ h_obj' = [h_obj EXCEPT ![h] = WrittenObject(@)]
  /\ UNCHANGED <<available_, stats_, shutdown_, h_pc, h_timeout, h_from, h_seen>>

\* ~PooledObject, lines 90-94, and returnObject, lines 296-325: the object
\* is destroyed when the pool is shut down or the queue is full, else it is
\* queued as the holder left it.
Holder_Release(h) ==
  /\ UNCHANGED otherThanObj
  /\ h_pc[h] = "idle"
  /\ h_obj[h] # NoObject
  /\ IF shutdown_ \/ Len(available_) >= MaxSize
       THEN /\ stats_' = [stats_ EXCEPT !.total_destroyed = @ + 1,
                                        !.active_objects = @ - 1]
            /\ UNCHANGED available_
       ELSE /\ available_' = Append(available_, h_obj[h])
            /\ stats_' = [stats_ EXCEPT !.total_returned = @ + 1,
                                        !.active_objects = @ - 1,
                                        !.current_size = @ + 1]
  /\ h_obj' = [h_obj EXCEPT ![h] = NoObject]
  /\ h_from' = [h_from EXCEPT ![h] = "none"]
  /\ UNCHANGED <<shutdown_, h_pc, h_timeout, h_seen>>

\* clear, lines 250-257, under the mutex: every idle object is destroyed
\* and current_size is stored as 0.
Pool_Clear ==
  /\ UNCHANGED otherThanObj
  /\ stats_' = [stats_ EXCEPT !.total_destroyed = @ + Len(available_),
                              !.current_size = 0]
  /\ available_' = << >>
  /\ UNCHANGED <<shutdown_, h_pc, h_obj, h_timeout, h_from, h_seen>>

\* cleanupLoop, lines 355-382, one pass under the mutex: the objects that
\* have been idle for longer than max_idle_time_ms are destroyed; they are
\* the oldest ones, at the front of the queue.
Cleanup_Pass ==
  /\ UNCHANGED otherThanObj
  /\ ~shutdown_
  /\ \E expired \in 1..Len(available_) :
       /\ available_' = SubSeq(available_, expired + 1, Len(available_))
       /\ stats_' = [stats_ EXCEPT !.total_destroyed = @ + expired,
                                   !.current_size = @ - expired]
  /\ UNCHANGED <<shutdown_, h_pc, h_obj, h_timeout, h_from, h_seen>>

NextObjectPool ==
  \/ Pool_Clear
  \/ Cleanup_Pass
  \/ \E h \in Holders : Acquire_Begin(h)
  \/ \E h \in Holders : Acquire_Reset(h)
  \/ \E h \in Holders : Acquire_Wake(h)
  \/ \E h \in Holders : Acquire_Miss(h)
  \/ \E h \in Holders : Acquire_Create(h)
  \/ \E h \in Holders : Holder_Write(h)
  \/ \E h \in Holders : Holder_Release(h)

\* The components that stand apart from the callers and the server, as
\* constructed.
InitApp == InitCtl /\ InitCfgHist /\ InitObjectPool

\* A controller on its own, in a process that has loaded its configuration.
InitSpecController ==
  /\ InitChannel /\ InitZk /\ InitReg /\ config_map = CfgDocumented
  /\ InitServing /\ InitZc /\ InitApp /\ InitPool

SpecController == InitSpecController /\ [][NextController]_vars

\* A Pconfig that has loaded nothing yet.
InitSpecConfig ==
  /\ InitChannel /\ InitZk /\ InitReg /\ config_map = EmptyMap
  /\ InitServing /\ InitZc /\ InitApp /\ InitPool

SpecConfig == InitSpecConfig /\ [][NextConfig]_vars

\* An object pool constructed with up to InitialSize objects.
InitSpecObjectPool ==
  /\ InitChannel /\ InitZk /\ InitReg /\ config_map = CfgDocumented
  /\ InitServing /\ InitZc /\ InitPool /\ InitCtl /\ InitCfgHist
  /\ \E initial_size \in 0..InitialSize : ObjectPoolConstructed(initial_size)

SpecObjectPool == InitSpecObjectPool /\ [][NextObjectPool]_vars

\* The server behind an open connection stops and starts again: the
\* connection is gone for the server, the client's socket stays open.
Server_Restart ==
  /\ UNCHANGED otherThanChan
  /\ UNCHANGED recvVars
  /\ \E f \in FDs :
       /\ fdSock[f] # 0
       /\ fdSock[f] \notin stale
       /\ stale' = stale \cup {fdSock[f]}
  /\ UNCHANGED <<pc, calls, m_connections, m_mutex, clientfd, host_data,
                 controller, done, doneRuns, respSet, exitPath, fdSock,
                 nextSock, sockFailed, mySock, so_rcvtimeo, resp>>

\* One thread that makes its calls one after the other.
SeqCaller == 1

NextChannelSeq ==
  \/ CM_Begin(SeqCaller)
  \/ CM_Resolve(SeqCaller)
  \/ CM_LockLookup(SeqCaller)
  \/ CM_Lookup(SeqCaller)
  \/ CM_Socket(SeqCaller)
  \/ CM_Connect(SeqCaller)
  \/ CM_ConnectClose(SeqCaller)
  \/ CM_LockInsert(SeqCaller)
  \/ CM_Insert(SeqCaller)
  \/ CM_Send(SeqCaller)
  \/ CM_Recv(SeqCaller)
  \/ CM_CloseErr(SeqCaller)
  \/ CM_LockErase(SeqCaller)
  \/ CM_Erase(SeqCaller)
  \/ CM_Done(SeqCaller)
  \/ Server_Restart

\* The callers' process has loaded the documented configuration; the
\* controllers carry the default timeout.
InitSpecChannel ==
  /\ InitChannel
  /\ InitZk /\ InitReg /\ config_map = CfgDocumented
  /\ InitServing /\ InitZc /\ InitApp /\ InitPool

SpecChannel == InitSpecChannel /\ [][NextChannel]_vars

\* The same process with one caller at work, whose controller was given one
\* of the timeouts of Timeouts with SetTimeout and whose callee answers with
\* responses of the lengths of ResponseLens.
InitSpecChannelSeq ==
  /\ \E timeout_ms \in Timeouts : ChannelConstructed(timeout_ms)
  /\ resp_lens = ResponseLens
  /\ InitZk /\ InitReg /\ config_map = CfgDocumented
  /\ InitServing /\ InitZc /\ InitApp /\ InitPool

SpecChannelSeq == InitSpecChannelSeq /\ [][NextChannelSeq]_vars

(***************************************************************************)
(* ZkClient, src/src/zookeeperutil.cc, and the session of its handle.      *)
(***************************************************************************)
\* ZkClient::global_watcher, lines 6-16: on a session event in the connected
\* state, post m_sem of the client found in the handle's context.
global_watcher(type, state) ==
  /\ zk_seen' = zk_seen \cup {state}
  /\ IF type = "ZOO_SESSION_EVENT" /\ state = "ZOO_CONNECTED_STATE"
          /\ zh_context # "null"
       THEN m_sem' = m_sem + 1
       ELSE UNCHANGED m_sem
  /\ UNCHANGED <<cbCalls, m_session_expired_cb>>

\* zookeeper_init parses "host:port"; a connection string without a port
\* number gives a null handle.
ConnstrUsable(connstr) == connstr[1] # "" /\ Atoi(connstr[3]) # 0

\* ZkClient::Start, lines 27-45: store the handler, build connstr from the
\* configuration, zookeeper_init(connstr, global_watcher, 3000, nullptr,
\* nullptr, 0): the fifth argument is the handle's context.  A null handle
\* is LOG(FATAL), which exits the process.
ZkStartInit ==
  /\ zk_pc = "idle"
  /\ \E cb \in BOOLEAN : m_session_expired_cb' = cb
  /\ LET connstr == <<Load("zookeeperip"), ":", Load("zookeeperport")>>
     IN \E ok \in {ConnstrUsable(connstr), FALSE} :
          IF ok
            THEN /\ m_zhandle' = 1
                 /\ zh_context' = "null"
                 /\ zk_session' = "connecting"
                 /\ zk_pc' = "sem_wait"
            ELSE /\ zk_pc' = "exited"
                 /\ UNCHANGED <<m_zhandle, zh_context, zk_session>>
  /\ UNCHANGED <<m_sem, cbCalls, zk_events, zk_seen, zk_steps, zk_ops,
                 promise_rc, znodes, foreign_steps, create_error_logged>>

\* ZkClient::Start, lines 46-48: sem_wait(&m_sem), then return.
ZkStartWait ==
  /\ zk_pc = "sem_wait"
  /\ m_sem > 0
  /\ m_sem' = m_sem - 1
  /\ zk_pc' = "returned"
  /\ UNCHANGED <<m_zhandle, zh_context, zk_session, m_session_expired_cb,
                 cbCalls, zk_events, zk_seen, zk_steps, zk_ops, promise_rc,
                 znodes, foreign_steps, create_error_logged>>

\* A thread running ZkClient::Start.
ZkStart ==
  /\ UNCHANGED otherThanZk
  /\ IF zk_pc = "idle" THEN ZkStartInit ELSE ZkStartWait

\* The store ends a session: its ephemeral nodes are deleted.
ExpireSession(nodes, session) ==
  [p \in Paths |-> IF nodes[p].exists /\ nodes[p].owner = session
                     THEN NoNode ELSE nodes[p]]

\* The library's session: the handle connects, loses and regains the
\* connection, and learns on reconnecting that the store has ended the
\* session.  Each change is queued as a session event for the watcher.
Lib_SessionChange ==
  /\ UNCHANGED otherThanZk
  /\ zk_steps < MaxSessionSteps
  /\ zk_pc # "exited"
  /\ \E to \in {"connected", "connecting", "expired"} :
       /\ \/ zk_session = "connecting" /\ to \in {"connected", "expired"}
          \/ zk_session = "connected" /\ to = "connecting"
       /\ zk_session' = to
       /\ zk_events' = Append(zk_events,
            [type |-> "ZOO_SESSION_EVENT",
             state |-> CASE to = "connected" -> "ZOO_CONNECTED_STATE"
                         [] to = "connecting" -> "ZOO_CONNECTING_STATE"
                         [] OTHER -> "ZOO_EXPIRED_SESSION_STATE"])
       /\ znodes' = IF to = "expired" THEN ExpireSession(znodes, 1) ELSE znodes
  /\ zk_steps' = zk_steps + 1
  /\ UNCHANGED <<zk_pc, m_zhandle, zh_context, m_sem, m_session_expired_cb,
                 cbCalls, zk_seen, zk_ops, promise_rc, foreign_steps,
                 create_error_logged>>

\* The library's event thread calls the watcher with the oldest event.
Lib_DeliverEvent ==
  /\ UNCHANGED otherThanZk
  /\ zk_events # << >>
  /\ global_watcher(Head(zk_events).type, Head(zk_events).state)
  /\ zk_events' = Tail(zk_events)
  /\ UNCHANGED <<zk_pc, m_zhandle, zh_context, zk_session, zk_steps, zk_ops,
                 promise_rc, znodes, foreign_steps, create_error_logged>>

NextZk ==
  \/ ZkStart
  \/ Lib_SessionChange
  \/ Lib_DeliverEvent

InitSpecZk ==
  /\ InitChannel /\ InitZk /\ InitReg /\ InitConfig /\ InitServing /\ InitZc
  /\ InitApp /\ InitPool

SpecZk == InitSpecZk /\ [][NextZk]_vars

(***************************************************************************)
(* ZkClient::Create and the store, src/src/zookeeperutil.cc:50-145.        *)
(***************************************************************************)
\* zoo_aexists / zoo_acreate: what queueing an operation on the handle
\* returns.
QueueRc ==
  IF m_zhandle = 0 THEN "ZBADARGUMENTS"
  ELSE IF zk_session = "expired" THEN "ZINVALIDSTATE"
  ELSE "ZOK"

\* What the completion of an exists on path reports.
ExistsRc(path) ==
  IF zk_session = "connected"
    THEN IF znodes[path].exists THEN "ZOK" ELSE "ZNONODE"
  ELSE IF zk_session = "expired" THEN "ZSESSIONEXPIRED"
  ELSE "ZCONNECTIONLOSS"

\* What the completion of a create on path reports.
CreateRc(path) ==
  IF zk_session = "connected"
    THEN IF znodes[path].exists THEN "ZNODEEXISTS"
         ELSE IF Len(path) = 2 /\ ~znodes[ServicePath(path[1])].exists
           THEN "ZNONODE"
         ELSE IF Len(path) = 2 /\ znodes[ServicePath(path[1])].owner # 0
           THEN "ZNOCHILDRENFOREPHEMERALS"
         ELSE "ZOK"
  ELSE IF zk_session = "expired" THEN "ZSESSIONEXPIRED"
  ELSE "ZCONNECTIONLOSS"

\* ZkClient::Create, lines 50-68: build the context and queue the exists; a
\* call that cannot be queued logs an error and returns.
ZkCreateCall(path, data, state) ==
  IF QueueRc = "ZOK"
    THEN /\ zk_ops' = Append(zk_ops, [op |-> "exists", path |-> path,
                                      data |-> data, state |-> state])
         /\ promise_rc' = "unset"
         /\ UNCHANGED create_error_logged
    ELSE /\ create_error_logged' = TRUE
         /\ UNCHANGED <<zk_ops, promise_rc>>

\* ZkClient::exists_completion_callback going on to zoo_acreate whatever the
\* exists reported: what the callback must not be.
exists_completion_callback_AlwaysCreate(rc, context, rest) ==
  /\ zk_ops' = Append(rest, [context EXCEPT !.op = "create"])
  /\ UNCHANGED promise_rc

\* What zoo_acreate, called from the exists callback, returns: the code of
\* the handle's state, or ZMARSHALLINGERROR when the library cannot build
\* or queue the request.
ChainedQueueRcs == {QueueRc, "ZMARSHALLINGERROR"}

\* ZkClient::exists_completion_callback, lines 105-133.
exists_completion_callback(rc, context, rest) ==
  IF rc = "ZOK"
    THEN /\ promise_rc' = "ZOK"
         /\ zk_ops' = rest
  ELSE IF rc = "ZNONODE"
    THEN \E create_rc \in ChainedQueueRcs :
            IF create_rc # "ZOK"
              THEN /\ promise_rc' = create_rc
                   /\ zk_ops' = rest
              ELSE /\ zk_ops' = Append(rest, [context EXCEPT !.op = "create"])
                   /\ UNCHANGED promise_rc
  ELSE /\ promise_rc' = rc
       /\ zk_ops' = rest

\* ZkClient::create_completion_callback leaving the promise without a
\* value: what the callback must not be.
create_completion_callback_NoSet(rc) == UNCHANGED promise_rc

\* ZkClient::create_completion_callback, lines 136-145.
create_completion_callback(rc) == promise_rc' = rc

\* The library completes the oldest queued operation and runs its callback.
Lib_Complete ==
  /\ UNCHANGED otherThanZk
  /\ zk_ops # << >>
  /\ Head(zk_ops).op # "get"
  /\ LET context == Head(zk_ops)
         rest == Tail(zk_ops)
     IN IF context.op = "exists"
          THEN /\ exists_completion_callback(ExistsRc(context.path), context,
                                             rest)
               /\ UNCHANGED znodes
          ELSE LET rc == CreateRc(context.path)
               IN /\ znodes' =
                       IF rc = "ZOK"
                         THEN [znodes EXCEPT ![context.path] =
                                 Node(context.data,
                                      IF context.state = "ZOO_EPHEMERAL"
                                        THEN 1 ELSE 0)]
                         ELSE znodes
                  /\ create_completion_callback(rc)
                  /\ zk_ops' = rest
  /\ UNCHANGED <<zk_pc, m_zhandle, zh_context, m_sem, m_session_expired_cb,
                 cbCalls, zk_session, zk_events, zk_seen, zk_steps,
                 foreign_steps, create_error_logged>>

\* Another provider of User.Login, with its own session, registers itself:
\* a persistent service node, then an ephemeral method node with its
\* endpoint.
ForeignPaths == {ServicePath("User"), MethodPath("User", "Login")}

Foreign_Create ==
  /\ UNCHANGED otherThanZk
  /\ foreign_steps < MaxForeign
  /\ \E path \in ForeignPaths :
       /\ ~znodes[path].exists
       /\ Len(path) = 2 => znodes[ServicePath(path[1])].exists
       /\ znodes' = [znodes EXCEPT ![path] =
                       IF Len(path) = 1 THEN Node(<< >>, 0) ELSE Node(Ep2, 2)]
  /\ foreign_steps' = foreign_steps + 1
  /\ UNCHANGED <<zk_pc, m_zhandle, zh_context, m_sem, m_session_expired_cb,
                 cbCalls, zk_session, zk_events, zk_seen, zk_steps, zk_ops,
                 promise_rc, create_error_logged>>

\* The other provider's session ends.
Foreign_EndSession ==
  /\ UNCHANGED otherThanZk
  /\ foreign_steps < MaxForeign
  /\ \E path \in Paths : znodes[path].exists /\ znodes[path].owner = 2
  /\ znodes' = ExpireSession(znodes, 2)
  /\ foreign_steps' = foreign_steps + 1
  /\ UNCHANGED <<zk_pc, m_zhandle, zh_context, m_sem, m_session_expired_cb,
                 cbCalls, zk_session, zk_events, zk_seen, zk_steps, zk_ops,
                 promise_rc, create_error_logged>>

(***************************************************************************)
(* A thread that uses a started ZkClient: it calls Create and GetData,     *)
(* one call at a time, src/src/zookeeperutil.cc:50-163.                    *)
(***************************************************************************)
\* The paths, values and flags the thread calls Create and GetData with.
ZcPaths == {ServicePath("User"), MethodPath("User", "Login")}
ZcData == {Ep1, << >>}
ZcStates == {"ZOO_EPHEMERAL", "0"}

\* What a finished call left behind: its arguments, the other clients'
\* step count when it began, the code it ended with,
\* whether it waited on its future, GetData's return value, the severity of
\* the line Create logged last, the node the store served to the last read,
\* and the store, the other clients' step count and the session at the
\* return.
Returned(call, rc, waited, value, log) ==
  [kind |-> call.kind, path |-> call.path, data |-> call.data,
   state |-> call.state, begun |-> call.begun, rc |-> rc, waited |-> waited,
   value |-> value, log |-> log,
   served |-> IF call.kind = "get" /\ waited THEN get_served ELSE NoNode,
   store |-> znodes, foreign |-> foreign_steps, session |-> zk_session]

\* ZkClient::Create, lines 50-68: a call of Create by the thread.  When
\* zoo_aexists cannot be queued Create logs an error and returns at line 67
\* without waiting.
ZkCreate_Call ==
  /\ UNCHANGED otherThanStore
  /\ zc_pc = "idle"
  /\ Len(zc_hist) < MaxZkCalls
  /\ \E path \in ZcPaths, data \in ZcData, state \in ZcStates :
       LET call == [kind |-> "create", path |-> path, data |-> data,
                    state |-> state, begun |-> foreign_steps]
       IN /\ ZkCreateCall(path, data, state)
          /\ IF QueueRc = "ZOK"
               THEN /\ zc_pc' = "create_wait"
                    /\ zc_call' = call
                    /\ UNCHANGED zc_hist
               ELSE /\ zc_hist' = Append(zc_hist,
                         Returned(call, QueueRc, FALSE, << >>, "ERROR"))
                    /\ UNCHANGED <<zc_pc, zc_call>>
  /\ UNCHANGED <<promise_data, get_served>>
  /\ UNCHANGED <<zk_pc, m_zhandle, zh_context, m_sem, m_session_expired_cb,
                 cbCalls, zk_session, zk_events, zk_seen, zk_steps, znodes,
                 foreign_steps>>

\* ZkClient::Create, lines 72-80: future.get() yields the final code; ZOK is
\* logged as INFO "created/existed successfully", any other code as ERROR
\* "Failed to create path".
ZkCreate_Return ==
  /\ UNCHANGED otherThanStore
  /\ zc_pc = "create_wait"
  /\ promise_rc # "unset"
  /\ LET final_rc == promise_rc
     IN /\ zc_hist' = Append(zc_hist,
             Returned(zc_call, final_rc, TRUE, << >>,
                      IF final_rc = "ZOK" THEN "INFO" ELSE "ERROR"))
        /\ create_error_logged' = (create_error_logged \/ final_rc # "ZOK")
  /\ promise_rc' = "unset"
  /\ zc_pc' = "idle"
  /\ zc_call' = NoCall
  /\ UNCHANGED <<promise_data, get_served>>
  /\ UNCHANGED <<zk_pc, m_zhandle, zh_context, m_sem, m_session_expired_cb,
                 cbCalls, zk_session, zk_events, zk_seen, zk_steps, zk_ops,
                 znodes, foreign_steps>>

\* ZkClient::GetData, lines 82-92: build the context and queue the read; a
\* read that cannot be queued logs an error and returns "".
ZkGetData_Call ==
  /\ UNCHANGED otherThanStore
  /\ zc_pc = "idle"
  /\ Len(zc_hist) < MaxZkCalls
  /\ \E path \in ZcPaths :
       LET call == [kind |-> "get", path |-> path, data |-> << >>,
                    state |-> "0", begun |-> foreign_steps]
           rc == QueueRc
       IN IF rc = "ZOK"
            THEN /\ zk_ops' = Append(zk_ops, [op |-> "get", path |-> path,
                                              data |-> << >>, state |-> "0"])
                 /\ promise_data' = NoData
                 /\ zc_pc' = "get_wait"
                 /\ zc_call' = call
                 /\ UNCHANGED zc_hist
            ELSE /\ zc_hist' = Append(zc_hist,
                      Returned(call, rc, FALSE, << >>, "ERROR"))
                 /\ UNCHANGED <<zk_ops, promise_data, zc_pc, zc_call>>
  /\ UNCHANGED get_served
  /\ UNCHANGED <<zk_pc, m_zhandle, zh_context, m_sem, m_session_expired_cb,
                 cbCalls, zk_session, zk_events, zk_seen, zk_steps, promise_rc,
                 znodes, foreign_steps, create_error_logged>>

\* What the completion of a read of path reports.
GetRc(path) ==
  IF zk_session = "connected"
    THEN IF znodes[path].exists THEN "ZOK" ELSE "ZNONODE"
  ELSE IF zk_session = "expired" THEN "ZSESSIONEXPIRED"
  ELSE "ZCONNECTIONLOSS"

\* ZkClient::get_completion_callback with an empty first on every code:
\* what the callback must not be.
get_completion_callback_Empty(rc, value) ==
  promise_data' = [first |-> << >>, second |-> rc]

\* ZkClient::get_completion_callback, lines 148-163.
get_completion_callback(rc, value) ==
  IF rc = "ZOK"
    THEN promise_data' = [first |-> value, second |-> "ZOK"]
    ELSE promise_data' = [first |-> << >>, second |-> rc]

\* The library completes a queued read and runs its callback; value is the
\* node's data on ZOK and null otherwise.
Lib_CompleteGet ==
  /\ UNCHANGED otherThanStore
  /\ zk_ops # << >>
  /\ Head(zk_ops).op = "get"
  /\ LET path == Head(zk_ops).path
         rc == GetRc(path)
     IN /\ get_completion_callback(rc, IF rc = "ZOK" THEN znodes[path].data
                                                     ELSE << >>)
        /\ get_served' = IF rc = "ZOK" THEN znodes[path] ELSE NoNode
  /\ zk_ops' = Tail(zk_ops)
  /\ UNCHANGED <<zc_pc, zc_call, zc_hist>>
  /\ UNCHANGED <<zk_pc, m_zhandle, zh_context, m_sem, m_session_expired_cb,
                 cbCalls, zk_session, zk_events, zk_seen, zk_steps, promise_rc,
                 znodes, foreign_steps, create_error_logged>>

\* ZkClient::GetData, lines 95-101: future.get() yields the pair; a code
\* other than ZOK is logged; the first of the pair is returned.
ZkGetData_Return ==
  /\ UNCHANGED otherThanStore
  /\ zc_pc = "get_wait"
  /\ promise_data.second # "unset"
  /\ LET result_pair == promise_data
     IN zc_hist' = Append(zc_hist,
          Returned(zc_call, result_pair.second, TRUE, result_pair.first,
                   IF result_pair.second = "ZOK" THEN "none" ELSE "ERROR"))
  /\ promise_data' = NoData
  /\ zc_pc' = "idle"
  /\ zc_call' = NoCall
  /\ UNCHANGED get_served
  /\ UNCHANGED <<zk_pc, m_zhandle, zh_context, m_sem, m_session_expired_cb,
                 cbCalls, zk_session, zk_events, zk_seen, zk_steps, zk_ops,
                 promise_rc, znodes, foreign_steps, create_error_logged>>

\* The watcher is left out: it writes m_sem and the states it has seen,
\* which Create, GetData and the completion callbacks never read.
NextStore ==
  \/ ZkCreate_Call
  \/ ZkCreate_Return
  \/ ZkGetData_Call
  \/ ZkGetData_Return
  \/ Lib_Complete
  \/ Lib_CompleteGet
  \/ Lib_SessionChange
  \/ Foreign_Create
  \/ Foreign_EndSession

\* Start has returned; since then the session has lost and regained its
\* connection and the watcher has seen both.  The store holds no node of
\* this client yet.
InitStarted ==
  /\ zk_pc = "returned"
  /\ m_zhandle = 1
  /\ zh_context = "null"
  /\ m_sem = 0
  /\ m_session_expired_cb = FALSE
  /\ cbCalls = 0
  /\ zk_session = "connected"
  /\ zk_events = << >>
  /\ zk_seen = {"ZOO_CONNECTED_STATE", "ZOO_CONNECTING_STATE"}
  /\ zk_steps = MaxSessionSteps - 2
  /\ zk_ops = << >>
  /\ promise_rc = "unset"
  /\ znodes = [p \in Paths |-> NoNode]
  /\ foreign_steps = 0
  /\ create_error_logged = FALSE

InitSpecStore ==
  /\ InitChannel /\ InitStarted /\ InitReg /\ config_map = CfgDocumented
  /\ InitServing /\ InitZc /\ InitApp /\ InitPool

SpecStore == InitSpecStore /\ [][NextStore]_vars

\* The library's completion thread runs every queued completion, and the
\* calling thread, once its future is ready, goes on to return.
SpecStoreLive ==
  /\ SpecStore
  /\ WF_vars(Lib_Complete)
  /\ WF_vars(Lib_CompleteGet)
  /\ WF_vars(ZkCreate_Return)
  /\ WF_vars(ZkGetData_Return)

(***************************************************************************)
(* Pprovider::NotifyService and the registration in Pprovider::Run,        *)
(* src/src/provider.cc:20-117.                                             *)
(***************************************************************************)
\* std::unordered_map::insert: no effect when the key is present.
MapInsert(map, key, val) ==
  IF map[key].present THEN map ELSE [map EXCEPT ![key] = val]

\* NotifyService, lines 21-40: the ServiceInfo built from a service object.
ServiceInfo(service) ==
  [present |-> TRUE, m_service |-> service,
   m_methodMap |-> Descriptor(service).methods]

\* Pprovider::NotifyService, lines 20-42.
NotifyService(service) ==
  LET pserviceDesc == Descriptor(service)
      service_info == ServiceInfo(service)
  IN /\ run_pc = "notify"
     /\ Len(notified) < MaxNotify
     /\ m_serviceMap' = MapInsert(m_serviceMap, pserviceDesc.name, service_info)
     /\ notified' = Append(notified, service)
     /\ UNCHANGED <<run_pc, ip, port, thread_num, server_addr, listening,
                    reg_left, reg_cur, reg_mleft>>
     /\ UNCHANGED <<otherThanReg, zkVars>>

Notify == \E service \in ServiceObjs : NotifyService(service)

\* Run, lines 44-58: read the settings.
Run_Config ==
  /\ run_pc = "notify"
  /\ ip' = Load("pcserverip")
  /\ port' = Atoi(Load("repcserverport"))
  /\ thread_num' = Atoi(Load("threadnum"))
  /\ run_pc' = "listen"
  /\ UNCHANGED <<m_serviceMap, notified, server_addr, listening, reg_left,
                 reg_cur, reg_mleft>>
  /\ UNCHANGED <<otherThanReg, zkVars>>

\* inet_addr(cp): the address a dotted quad names, INADDR_NONE for a string
\* that is not one.
InetAddr(cp) == IF cp = "10.0.0.1" THEN cp ELSE "255.255.255.255"

\* The port the kernel gives a socket bound with sin_port 0.
EphemeralPort == 60029

\* bind(listenfd, &server_addr): the local address of the socket afterwards;
\* port 0 asks for an ephemeral port.
BindAddr(cp, hostshort) ==
  [sin_addr |-> InetAddr(cp),
   sin_port |-> IF hostshort = 0 THEN EphemeralPort ELSE hostshort]

\* Run before its ZkClient exists: nothing of lines 60-100 has happened and
\* the thread goes on to Start.
Run_ListenSkipped ==
  /\ run_pc = "listen"
  /\ run_pc' = "zk_start"
  /\ UNCHANGED <<m_serviceMap, notified, ip, port, thread_num, server_addr,
                 listening, reg_left, reg_cur, reg_mleft>>
  /\ UNCHANGED <<otherThanReg, zkVars>>

\* Run, lines 60-100: socket, bind, listen, epoll_create1; a failure of one
\* of them exits the process, and its socket goes with it.
Run_Listen ==
  /\ run_pc = "listen"
  /\ \E ok \in BOOLEAN :
       /\ run_pc' = IF ok THEN "zk_start" ELSE "exited"
       /\ server_addr' = IF ok THEN BindAddr(ip, port) ELSE NoAddr
       /\ listening' = ok
  /\ UNCHANGED <<m_serviceMap, notified, ip, port, thread_num, reg_left,
                 reg_cur, reg_mleft>>
  /\ UNCHANGED <<otherThanReg, zkVars>>

\* Run, lines 104-105: ZkClient zkCli; zkCli.Start() up to its sem_wait.
Run_ZkStart ==
  /\ run_pc = "zk_start"
  /\ ZkStartInit
  /\ run_pc' = IF zk_pc' = "exited" THEN "exited" ELSE "zk_wait"
  /\ UNCHANGED <<m_serviceMap, notified, ip, port, thread_num, server_addr,
                 listening, reg_left,
                 reg_cur, reg_mleft>>
  /\ UNCHANGED otherThanReg

\* The adapter's contract for Start: it returns once the connected state
\* has been observed.
ZkStartContract ==
  /\ zk_pc = "sem_wait"
  /\ "ZOO_CONNECTED_STATE" \in zk_seen
  /\ zk_pc' = "returned"
  /\ UNCHANGED <<m_zhandle, zh_context, m_sem, m_session_expired_cb, cbCalls,
                 zk_session, zk_events, zk_seen, zk_steps, zk_ops, promise_rc,
                 znodes, foreign_steps, create_error_logged>>

\* Run, line 106: Start has returned, the loop over m_serviceMap begins.
Run_ZkStarted ==
  /\ run_pc = "zk_wait"
  /\ ZkStartContract
  /\ run_pc' = "register"
  /\ reg_left' = {sn \in ServiceNames : m_serviceMap[sn].present}
  /\ reg_cur' = ""
  /\ reg_mleft' = {}
  /\ UNCHANGED <<m_serviceMap, notified, ip, port, thread_num, server_addr,
                 listening>>
  /\ UNCHANGED otherThanReg

\* sprintf(method_path_data, "%s:%d", ip.c_str(), port), line 112.
MethodPathData == <<ip, ":", FormatD(port)>>

\* Run, lines 106-117: the next Create of the loops over m_serviceMap and
\* m_methodMap, whose iteration order is unspecified; after the last one the
\* thread goes on to the acceptor loop.
Run_Register ==
  /\ run_pc = "register"
  /\ IF reg_mleft # {}
       THEN \E mp \in reg_mleft :
              /\ ZkCreateCall(MethodPath(reg_cur, mp), MethodPathData,
                              "ZOO_EPHEMERAL")
              /\ reg_mleft' = reg_mleft \ {mp}
              /\ run_pc' = IF QueueRc = "ZOK" THEN "create" ELSE "register"
              /\ UNCHANGED <<reg_left, reg_cur>>
     ELSE IF reg_left # {}
       THEN \E sp \in reg_left :
              /\ ZkCreateCall(ServicePath(sp), << >>, "0")
              /\ reg_left' = reg_left \ {sp}
              /\ reg_cur' = sp
              /\ reg_mleft' = m_serviceMap[sp].m_methodMap
              /\ run_pc' = IF QueueRc = "ZOK" THEN "create" ELSE "register"
     ELSE /\ run_pc' = "loop"
          /\ reg_cur' = ""
          /\ UNCHANGED <<reg_left, reg_mleft, zk_ops, promise_rc,
                         create_error_logged>>
  /\ UNCHANGED <<m_serviceMap, notified, ip, port, thread_num, server_addr,
                 listening>>
  /\ UNCHANGED <<zk_pc, m_zhandle, zh_context, m_sem, m_session_expired_cb,
                 cbCalls, zk_session, zk_events, zk_seen, zk_steps, znodes,
                 foreign_steps>>
  /\ UNCHANGED otherThanReg

\* ZkClient::Create, lines 72-80: future.get() returns the final code, which
\* is logged; Create returns to the loop.
Run_CreateReturn ==
  /\ run_pc = "create"
  /\ promise_rc # "unset"
  /\ create_error_logged' = (create_error_logged \/ promise_rc # "ZOK")
  /\ promise_rc' = "unset"
  /\ run_pc' = "register"
  /\ UNCHANGED <<m_serviceMap, notified, ip, port, thread_num, server_addr,
                 listening, reg_left,
                 reg_cur, reg_mleft>>
  /\ UNCHANGED <<zk_pc, m_zhandle, zh_context, m_sem, m_session_expired_cb,
                 cbCalls, zk_session, zk_events, zk_seen, zk_steps, zk_ops,
                 znodes, foreign_steps>>
  /\ UNCHANGED otherThanReg

NextReg ==
  \/ Notify
  \/ Run_Config
  \/ Run_Listen
  \/ Run_ZkStart
  \/ Run_ZkStarted
  \/ Run_Register
  \/ Run_CreateReturn
  \/ Lib_SessionChange
  \/ Lib_DeliverEvent
  \/ Lib_Complete
  \/ Foreign_Create
  \/ Foreign_EndSession

InitSpecReg ==
  /\ InitChannel /\ InitZk /\ InitReg /\ InitConfig /\ InitServing /\ InitZc
  /\ InitApp /\ InitPool

SpecReg == InitSpecReg /\ [][NextReg]_vars

(***************************************************************************)
(* The acceptor loop of Pprovider::Run, src/src/provider.cc:120-158, the   *)
(* workers of ThreadPool, src/src/threadpool.cc:3-25, and                  *)
(* Pprovider::HandleClientRequest, src/src/provider.cc:161-258.            *)
(***************************************************************************)
\* The connection a descriptor of the server names, 0 when it is not open.
ConnOf(f) == IF f \in SrvFds THEN srv_fds[f] ELSE 0

\* The client has closed its end and all it sent has arrived.
PeerClosed(c) == cl_closed[c] /\ wire[c] = << >>

\* EPOLLIN, level-triggered: the descriptor is open and has unread bytes or
\* an end of stream.
Readable(f) ==
  ConnOf(f) # 0 /\ (inbound[ConnOf(f)] # << >> \/ PeerClosed(ConnOf(f)))

\* recv(f, buf, len, 0) blocks, whatever len is, while there is nothing to
\* read and no end of stream.
RecvBlocks(f) ==
  ConnOf(f) # 0 /\ inbound[ConnOf(f)] = << >> /\ ~PeerClosed(ConnOf(f))

\* The return value of recv(f, buf, len, 0): -1 on a descriptor that is not
\* open, 0 for len = 0 or at the end of the stream, else the number of bytes
\* read, which is at most len and at most what has arrived.
RecvN(f, len) ==
  IF ConnOf(f) = 0 THEN -1
  ELSE IF len = 0 THEN 0
  ELSE IF Len(inbound[ConnOf(f)]) < len THEN Len(inbound[ConnOf(f)])
  ELSE len

\* What recv of n > 0 bytes puts into the buffer, and what it leaves.
RecvData(f, n) == SubSeq(inbound[ConnOf(f)], 1, n)
RecvRest(f, n) ==
  [inbound EXCEPT ![ConnOf(f)] = SubSeq(@, n + 1, Len(@))]

\* close(f) in a handler; the worker returns to the pool.
HandlerClose(w) ==
  LET f == w_fd[w]
  IN /\ IF ConnOf(f) # 0
          THEN /\ srv_fds' = [srv_fds EXCEPT ![f] = 0]
               /\ conn_srv' = [conn_srv EXCEPT ![ConnOf(f)] = "closed"]
          ELSE UNCHANGED <<srv_fds, conn_srv>>
     /\ w_pc' = [w_pc EXCEPT ![w] = "idle"]
     /\ w_fd' = [w_fd EXCEPT ![w] = 0]
     /\ w_hsize' = [w_hsize EXCEPT ![w] = 0]
     /\ w_hdr' = [w_hdr EXCEPT ![w] = NoUnit]
     /\ w_args' = [w_args EXCEPT ![w] = << >>]

\* Bytes that are not a length prefix, read as one: a length beyond any
\* frame.
MisreadSize == MaxArgs + 2

\* Run, lines 134-150: accept a waiting connection, which gets the lowest
\* free descriptor, and add it to the epoll set.
Acceptor_Accept ==
  /\ UNCHANGED otherThanSrv
  /\ UNCHANGED w_done
  /\ \E c \in Conns :
       /\ conn_srv[c] = "backlog"
       /\ \E f \in SrvFds :
            /\ srv_fds[f] = 0
            /\ \A g \in SrvFds : srv_fds[g] = 0 => f =< g
            /\ srv_fds' = [srv_fds EXCEPT ![f] = c]
       /\ conn_srv' = [conn_srv EXCEPT ![c] = "open"]
  /\ UNCHANGED <<cl_pc, cl_calls, cl_req, cl_result, cl_closed, wire, inbound, outbound,
                 tasks, w_pc, w_fd, w_hsize, w_hdr, w_args>>

\* Run, lines 122-123 and 151-155: epoll_wait reports a client descriptor
\* readable and the loop queues a handler for it.
Acceptor_Enqueue ==
  /\ UNCHANGED otherThanSrv
  /\ UNCHANGED w_done
  /\ Len(tasks) < MaxQueue
  /\ \E sockfd \in SrvFds :
       /\ Readable(sockfd)
       /\ tasks' = Append(tasks, sockfd)
  /\ UNCHANGED <<cl_pc, cl_calls, cl_req, cl_result, cl_closed, wire, inbound, outbound,
                 conn_srv, srv_fds, w_pc, w_fd, w_hsize, w_hdr, w_args>>

\* ThreadPool worker, lines 9-21: take the oldest task and run it.
Worker_Take(w) ==
  /\ UNCHANGED otherThanSrv
  /\ w =< ThreadPoolSize(thread_num)
  /\ w_pc[w] = "idle"
  /\ tasks # << >>
  /\ w_fd' = [w_fd EXCEPT ![w] = Head(tasks)]
  /\ w_pc' = [w_pc EXCEPT ![w] = "recv_header_size"]
  /\ w_done' = [w_done EXCEPT ![w] = NoInvocation]
  /\ tasks' = Tail(tasks)
  /\ UNCHANGED <<cl_pc, cl_calls, cl_req, cl_result, cl_closed, wire, inbound, outbound,
                 conn_srv, srv_fds, w_hsize, w_hdr, w_args>>

\* HandleClientRequest, lines 162-176: read the length prefix.
Handle_RecvHeaderSize(w) ==
  /\ UNCHANGED otherThanSrv
  /\ UNCHANGED w_done
  /\ w_pc[w] = "recv_header_size"
  /\ ~RecvBlocks(w_fd[w])
  /\ LET n == RecvN(w_fd[w], 1)
     IN IF n =< 0
          THEN /\ HandlerClose(w)
               /\ UNCHANGED inbound
          ELSE /\ inbound' = RecvRest(w_fd[w], n)
               /\ w_hsize' = [w_hsize EXCEPT ![w] =
                    IF RecvData(w_fd[w], n)[1].kind = "size"
                      THEN RecvData(w_fd[w], n)[1].n ELSE MisreadSize]
               /\ w_pc' = [w_pc EXCEPT ![w] = "recv_header"]
               /\ UNCHANGED <<srv_fds, conn_srv, w_fd, w_hdr, w_args>>
  /\ UNCHANGED <<cl_pc, cl_calls, cl_req, cl_result, cl_closed, wire, outbound, tasks>>

\* HandleClientRequest, lines 178-200: read the header and parse it.
Handle_RecvHeader(w) ==
  /\ UNCHANGED otherThanSrv
  /\ UNCHANGED w_done
  /\ w_pc[w] = "recv_header"
  /\ ~RecvBlocks(w_fd[w])
  /\ LET n == RecvN(w_fd[w], w_hsize[w])
     IN IF n =< 0
          THEN /\ HandlerClose(w)
               /\ UNCHANGED inbound
        ELSE IF n = 1 /\ RecvData(w_fd[w], n)[1].kind = "header"
          THEN /\ inbound' = RecvRest(w_fd[w], n)
               /\ w_hdr' = [w_hdr EXCEPT ![w] = RecvData(w_fd[w], n)[1]]
               /\ w_pc' = [w_pc EXCEPT ![w] = "recv_args"]
               /\ UNCHANGED <<srv_fds, conn_srv, w_fd, w_hsize, w_args>>
        ELSE /\ inbound' = RecvRest(w_fd[w], n)
             /\ HandlerClose(w)
  /\ UNCHANGED <<cl_pc, cl_calls, cl_req, cl_result, cl_closed, wire, outbound, tasks>>

\* HandleClientRequest, lines 202-209: read the args.
Handle_RecvArgs(w) ==
  /\ UNCHANGED otherThanSrv
  /\ UNCHANGED w_done
  /\ w_pc[w] = "recv_args"
  /\ ~RecvBlocks(w_fd[w])
  /\ LET n == RecvN(w_fd[w], w_hdr[w].n)
     IN IF n =< 0
          THEN /\ HandlerClose(w)
               /\ UNCHANGED inbound
          ELSE /\ inbound' = RecvRest(w_fd[w], n)
               /\ w_args' = [w_args EXCEPT ![w] = RecvData(w_fd[w], n)]
               /\ w_pc' = [w_pc EXCEPT ![w] = "dispatch"]
               /\ UNCHANGED <<srv_fds, conn_srv, w_fd, w_hsize, w_hdr>>
  /\ UNCHANGED <<cl_pc, cl_calls, cl_req, cl_result, cl_closed, wire, outbound, tasks>>

\* request->ParseFromString(args_str): the bytes are a whole serialized
\* request.
RequestParses(hdr, args) ==
  Len(args) = hdr.n /\ \A i \in 1..Len(args) : args[i].kind = "arg"

\* Lines 231-236: the request did not parse; delete request, no closure.
ParseFailed(inv) == [inv EXCEPT !.request_deleted = @ + 1]

\* Lines 239-256: the response container and the done closure, which
\* captures clientfd, request and response.
NewCallback(inv, clientfd_) == [inv EXCEPT !.built = @ + 1, !.alive = TRUE, !.fd = clientfd_]

\* A mutation of the closure's Run that leaves the closure in existence.
ClosureRun_NotSelfDeleting(inv, serialized) ==
  [inv EXCEPT !.runs = @ + 1,
              !.serialized = serialized,
              !.sends = IF serialized THEN @ + 1 ELSE @,
              !.request_deleted = @ + 1,
              !.response_deleted = @ + 1]

\* done->Run(), lines 244-256 and the closure's self-deletion
\* (provider.hpp:40-46): serialize the response, one send on the captured
\* clientfd when that worked, delete request and response, delete this.
ClosureRun(inv, serialized) ==
  [inv EXCEPT !.runs = @ + 1,
              !.serialized = serialized,
              !.sends = IF serialized THEN @ + 1 ELSE @,
              !.request_deleted = @ + 1,
              !.response_deleted = @ + 1,
              !.alive = FALSE]

\* HandleClientRequest, lines 211-257: look the service and the method up,
\* parse the request, build the response and the done closure, and call
\* service->CallMethod.
Handle_Dispatch(w) ==
  /\ UNCHANGED otherThanSrv
  /\ w_pc[w] = "dispatch"
  /\ LET service_name == w_hdr[w].service
         method_name == w_hdr[w].method
     IN IF \/ ~m_serviceMap[service_name].present
           \/ method_name \notin m_serviceMap[service_name].m_methodMap
          THEN /\ HandlerClose(w)
               /\ UNCHANGED w_done
        ELSE IF ~RequestParses(w_hdr[w], w_args[w])
          THEN /\ HandlerClose(w)
               /\ w_done' = [w_done EXCEPT ![w] = ParseFailed(@)]
          ELSE /\ w_done' = [w_done EXCEPT ![w] = NewCallback(@, w_fd[w])]
               /\ w_pc' = [w_pc EXCEPT ![w] = "method"]
               /\ UNCHANGED <<srv_fds, conn_srv, w_fd, w_hsize, w_hdr, w_args>>
  /\ UNCHANGED <<cl_pc, cl_calls, cl_req, cl_result, cl_closed, wire, inbound,
                 outbound, tasks>>

\* The method of the service object (sample/callee/server.cc:14-32) fills
\* the response and calls done->Run(); the send of line 247 puts the
\* serialized response on the connection clientfd names.
Handler_RunDone(w) ==
  /\ UNCHANGED otherThanSrv
  /\ w_pc[w] = "method"
  /\ w_done[w].alive
  /\ \E serialized \in BOOLEAN :
       /\ w_done' = [w_done EXCEPT ![w] = ClosureRun(@, serialized)]
       /\ outbound' =
            IF serialized /\ ConnOf(w_done[w].fd) # 0
              THEN [outbound EXCEPT ![ConnOf(w_done[w].fd)] =
                      Append(@, Handler(
                        m_serviceMap[w_hdr[w].service].m_service,
                        w_hdr[w].method, w_args[w]))]
              ELSE outbound
  /\ UNCHANGED <<cl_pc, cl_calls, cl_req, cl_result, cl_closed, wire, inbound,
                 conn_srv, srv_fds, tasks, w_pc, w_fd, w_hsize, w_hdr, w_args>>

\* The method returns, having called done, then CallMethod and
\* HandleClientRequest (line 258); the worker returns to the pool.
Handler_Return(w) ==
  /\ UNCHANGED otherThanSrv
  /\ w_pc[w] = "method"
  /\ w_done[w].runs > 0
  /\ w_pc' = [w_pc EXCEPT ![w] = "idle"]
  /\ w_fd' = [w_fd EXCEPT ![w] = 0]
  /\ w_hsize' = [w_hsize EXCEPT ![w] = 0]
  /\ w_hdr' = [w_hdr EXCEPT ![w] = NoUnit]
  /\ w_args' = [w_args EXCEPT ![w] = << >>]
  /\ UNCHANGED <<cl_pc, cl_calls, cl_req, cl_result, cl_closed, wire, inbound,
                 outbound, conn_srv, srv_fds, tasks, w_done>>

(***************************************************************************)
(* The client of a connection: the wire side of Pchannel::CallMethod,      *)
(* src/src/channel.cc:41-45 and 73-139.                                    *)
(***************************************************************************)
\* The identity of the k-th request on connection c.
RequestId(c, k) == (c - 1) * MaxReqs + k

\* Lines 41-45 and 106: the frame of a new request goes out with one send.
SendRequest(c) ==
  \E target \in Targets, nargs \in 0..MaxArgs :
    LET args == Args(RequestId(c, cl_calls[c] + 1), nargs)
    IN /\ cl_req' = [cl_req EXCEPT ![c] =
            [service |-> target[1], method |-> target[2], args |-> args]]
       /\ wire' = [wire EXCEPT ![c] = @ \o Frame(target[1], target[2], args)]
       /\ cl_calls' = [cl_calls EXCEPT ![c] = @ + 1]
       /\ cl_result' = [cl_result EXCEPT ![c] = NoResult]
       /\ cl_pc' = [cl_pc EXCEPT ![c] = "sent"]

\* Lines 64-112, no pool entry: connect, insert into the pool, send.
Client_ConnectSend(c) ==
  /\ UNCHANGED otherThanSrv
  /\ UNCHANGED w_done
  /\ cl_pc[c] = "idle"
  /\ \A b \in Conns : b < c => cl_pc[b] # "idle"
  /\ SendRequest(c)
  /\ conn_srv' = [conn_srv EXCEPT ![c] = "backlog"]
  /\ UNCHANGED <<cl_closed, inbound, outbound, srv_fds, tasks, w_pc, w_fd,
                 w_hsize, w_hdr, w_args>>

\* Lines 64-70 and 106, pool hit: a later call sends on the pooled socket of
\* an earlier call that succeeded.
Client_SendAgain(c) ==
  /\ UNCHANGED otherThanSrv
  /\ UNCHANGED w_done
  /\ cl_pc[c] = "returned"
  /\ ~cl_closed[c]
  /\ cl_calls[c] < MaxReqs
  /\ SendRequest(c)
  /\ UNCHANGED <<cl_closed, inbound, outbound, conn_srv, srv_fds, tasks, w_pc,
                 w_fd, w_hsize, w_hdr, w_args>>

\* The network delivers the next bytes of a frame to the server's socket.
Net_Deliver(c) ==
  /\ UNCHANGED otherThanSrv
  /\ UNCHANGED w_done
  /\ wire[c] # << >>
  /\ wire' = [wire EXCEPT ![c] = Tail(@)]
  /\ inbound' = [inbound EXCEPT ![c] =
       IF conn_srv[c] = "closed" THEN @ ELSE Append(@, Head(wire[c]))]
  /\ UNCHANGED <<cl_pc, cl_calls, cl_req, cl_result, cl_closed, outbound, conn_srv,
                 srv_fds, tasks, w_pc, w_fd, w_hsize, w_hdr, w_args>>

\* The server has nothing left to do for connection c: the connection is
\* accepted, all the client sent has arrived and has been read, no handler
\* is queued, and every worker is idle or blocked in a recv.
ServerIdle(c) ==
  /\ conn_srv[c] = "open"
  /\ wire[c] = << >>
  /\ inbound[c] = << >>
  /\ tasks = << >>
  /\ \A w \in Workers :
       \/ w_pc[w] = "idle"
       \/ w_pc[w] \notin {"dispatch", "method"} /\ RecvBlocks(w_fd[w])

\* Lines 114-139: one recv of up to sizeof(recv_buf) bytes.  Bytes have
\* arrived: they are parsed into the response (a later response overwrites
\* the fields of an earlier one).  The server has closed: recv returns 0 or
\* fails, "recv error!".  Nothing arrives in time: "recv timeout!".  After a
\* failure the client closes the socket.
Client_Recv(c) ==
  /\ UNCHANGED otherThanSrv
  /\ UNCHANGED w_done
  /\ cl_pc[c] = "sent"
  /\ \/ /\ outbound[c] # << >>
        /\ cl_result' = [cl_result EXCEPT ![c] =
             [failed |-> FALSE, errText |-> "",
              response |-> <<outbound[c][Len(outbound[c])]>>,
              serverIdle |-> FALSE]]
        /\ outbound' = [outbound EXCEPT ![c] = << >>]
        /\ UNCHANGED cl_closed
     \/ /\ outbound[c] = << >>
        /\ cl_result' = [cl_result EXCEPT ![c] =
             [failed |-> TRUE,
              errText |-> IF conn_srv[c] = "closed" THEN "recv error!"
                                                    ELSE "recv timeout!",
              response |-> << >>,
              serverIdle |-> ServerIdle(c)]]
        /\ cl_closed' = [cl_closed EXCEPT ![c] = TRUE]
        /\ UNCHANGED outbound
  /\ cl_pc' = [cl_pc EXCEPT ![c] = "returned"]
  /\ UNCHANGED <<cl_calls, cl_req, wire, inbound, conn_srv, srv_fds, tasks,
                 w_pc, w_fd, w_hsize, w_hdr, w_args>>

\* The channel's process ends; its pooled connection is closed.
Client_Close(c) ==
  /\ UNCHANGED otherThanSrv
  /\ UNCHANGED w_done
  /\ cl_pc[c] = "returned"
  /\ ~cl_closed[c]
  /\ cl_closed' = [cl_closed EXCEPT ![c] = TRUE]
  /\ UNCHANGED <<cl_pc, cl_calls, cl_req, cl_result, wire, inbound, outbound, conn_srv,
                 srv_fds, tasks, w_pc, w_fd, w_hsize, w_hdr, w_args>>

\* A peer that is not a Pchannel connects and sends a frame whose length
\* prefix is 0: no header, and any bytes after it.
Peer_SendNoHeader(c) ==
  /\ UNCHANGED otherThanSrv
  /\ UNCHANGED w_done
  /\ cl_pc[c] = "idle"
  /\ \A b \in Conns : b < c => cl_pc[b] # "idle"
  /\ \E nargs \in 0..MaxArgs :
       wire' = [wire EXCEPT ![c] =
         <<Unit("size", "", "", 0, 0)>>
           \o Args(RequestId(c, cl_calls[c] + 1), nargs)]
  /\ cl_calls' = [cl_calls EXCEPT ![c] = @ + 1]
  /\ cl_pc' = [cl_pc EXCEPT ![c] = "raw"]
  /\ conn_srv' = [conn_srv EXCEPT ![c] = "backlog"]
  /\ UNCHANGED <<cl_req, cl_result, cl_closed, inbound, outbound, srv_fds,
                 tasks, w_pc, w_fd, w_hsize, w_hdr, w_args>>

\* That peer closes its end.
Peer_Close(c) ==
  /\ UNCHANGED otherThanSrv
  /\ UNCHANGED w_done
  /\ cl_pc[c] = "raw"
  /\ cl_closed' = [cl_closed EXCEPT ![c] = TRUE]
  /\ cl_pc' = [cl_pc EXCEPT ![c] = "gone"]
  /\ UNCHANGED <<cl_calls, cl_req, cl_result, wire, inbound, outbound,
                 conn_srv, srv_fds, tasks, w_pc, w_fd, w_hsize, w_hdr, w_args>>

NextServer ==
  \/ Acceptor_Accept
  \/ Acceptor_Enqueue
  \/ \E w \in Workers :
       \/ Worker_Take(w)
       \/ Handle_RecvHeaderSize(w)
       \/ Handle_RecvHeader(w)
       \/ Handle_RecvArgs(w)
       \/ Handle_Dispatch(w)
       \/ Handler_RunDone(w)
       \/ Handler_Return(w)
  \/ \E c \in Conns :
       \/ Client_ConnectSend(c)
       \/ Client_SendAgain(c)
       \/ Net_Deliver(c)
       \/ Client_Recv(c)
       \/ Client_Close(c)
       \/ Peer_SendNoHeader(c)
       \/ Peer_Close(c)

\* Run has read a configuration that names the store, NotifyService was
\* called with the object user1, registration is done and the thread is in
\* the acceptor loop.
InitRunning ==
  /\ config_map \in {CfgDocumented, CfgAsRead}
  /\ m_serviceMap =
       MapInsert([sn \in ServiceNames |-> NoService], Descriptor("user1").name,
                 ServiceInfo("user1"))
  /\ notified = <<"user1">>
  /\ run_pc = "loop"
  /\ ip = Load("pcserverip")
  /\ port = Atoi(Load("repcserverport"))
  /\ thread_num = Atoi(Load("threadnum"))
  /\ server_addr = BindAddr(ip, port)
  /\ listening = TRUE
  /\ reg_left = {}
  /\ reg_cur = ""
  /\ reg_mleft = {}
  /\ zk_pc = "returned"
  /\ m_zhandle = 1
  /\ zh_context = "null"
  /\ m_sem = 0
  /\ m_session_expired_cb = FALSE
  /\ cbCalls = 0
  /\ zk_session = "connected"
  /\ zk_events = << >>
  /\ zk_seen = {"ZOO_CONNECTED_STATE"}
  /\ zk_steps = 1
  /\ zk_ops = << >>
  /\ promise_rc = "unset"
  /\ znodes = [p \in Paths |->
       IF p = ServicePath("User") THEN Node(<< >>, 0)
       ELSE IF p[1] = "User" /\ p[2] \in Descriptor("user1").methods
         THEN Node(<<ip, ":", FormatD(port)>>, 1)
       ELSE NoNode]
  /\ foreign_steps = 0
  /\ create_error_logged = FALSE

InitSpecServer ==
  InitChannel /\ InitRunning /\ InitServing /\ InitZc /\ InitApp /\ InitPool

SpecServer == InitSpecServer /\ [][NextServer]_vars

(***************************************************************************)
(* ThreadPool: src/src/include/threadpool.hpp:16-34 (enqueue) and          *)
(* src/src/threadpool.cc:3-36 (worker loop, destructor).  What a thread    *)
(* does while it holds queue_mutex_ is one step.                           *)
(***************************************************************************)
\* The workers blocked inside condition_.wait.
Sleeping == {w \in PoolWorkers : workers_[w] = "sleep"}

\* The text enqueue throws std::runtime_error with, threadpool.hpp:28.
StoppedError == "enqueue on stopped ThreadPool"

\* enqueue that queues the task whatever stop_ is: what enqueue must not
\* be.
EnqueueLocked_IgnoreStop(s, k, kind) ==
  /\ tasks_' = Append(tasks_, k)
  /\ tp_future' = [tp_future EXCEPT ![k] = Pending]
  /\ tp_accepted' = Append(tp_accepted, k)
  /\ ts_pc' = [ts_pc EXCEPT ![s] = "notify"]
  /\ UNCHANGED tp_rejected

\* enqueue that puts the task at the front of the queue: what enqueue must
\* not be.
EnqueueLocked_Front(s, k, kind) ==
  IF stop_
    THEN /\ tp_rejected' = tp_rejected \cup {[task |-> k, what |-> StoppedError]}
         /\ UNCHANGED <<tasks_, tp_future, tp_accepted, ts_pc>>
    ELSE /\ tasks_' = <<k>> \o tasks_
         /\ tp_future' = [tp_future EXCEPT ![k] = Pending]
         /\ tp_accepted' = Append(tp_accepted, k)
         /\ ts_pc' = [ts_pc EXCEPT ![s] = "notify"]
         /\ UNCHANGED tp_rejected

\* enqueue, threadpool.hpp:18-31: make the packaged_task and its future,
\* then, under queue_mutex_, throw when stop_ is set and otherwise put the
\* task at the back of tasks_.
EnqueueLocked(s, k, kind) ==
  IF stop_
    THEN /\ tp_rejected' = tp_rejected \cup {[task |-> k, what |-> StoppedError]}
         /\ UNCHANGED <<tasks_, tp_future, tp_accepted, ts_pc>>
    ELSE /\ tasks_' = Append(tasks_, k)
         /\ tp_future' = [tp_future EXCEPT ![k] = Pending]
         /\ tp_accepted' = Append(tp_accepted, k)
         /\ ts_pc' = [ts_pc EXCEPT ![s] = "notify"]
         /\ UNCHANGED tp_rejected

\* A thread calls enqueue with a task that returns or one that throws, while
\* the pool object is there.
Enqueue_Lock(s) ==
  /\ UNCHANGED otherThanPool
  /\ ts_pc[s] = "idle"
  /\ tp_next =< MaxTasks
  /\ td_pc # "returned"
  /\ \E kind \in {"returns", "throws"} :
       /\ EnqueueLocked(s, tp_next, kind)
       /\ tp_kind' = [tp_kind EXCEPT ![tp_next] = kind]
  /\ tp_seen' = [tp_seen EXCEPT ![tp_next] = {j \in TaskIds : tp_runs[j] > 0}]
  /\ tp_next' = tp_next + 1
  /\ UNCHANGED <<stop_, workers_, tw_task, tp_ran, tp_runs, td_pc, td_joined,
                 td_queued>>

\* A notify_one that wakes no thread: what the notification of enqueue must
\* not be.
NotifyOne_Lost == UNCHANGED workers_

\* condition_.notify_one(): one of the sleeping workers, if there is one,
\* leaves the wait and goes for the mutex.
NotifyOne ==
  IF Sleeping = {}
    THEN UNCHANGED workers_
    ELSE \E w \in Sleeping : workers_' = [workers_ EXCEPT ![w] = "lock"]

\* enqueue, threadpool.hpp:32-33: notify_one, return the future.
Enqueue_Notify(s) ==
  /\ UNCHANGED otherThanPool
  /\ ts_pc[s] = "notify"
  /\ NotifyOne
  /\ ts_pc' = [ts_pc EXCEPT ![s] = "idle"]
  /\ UNCHANGED <<stop_, tasks_, tw_task, tp_next, tp_kind, tp_accepted,
                 tp_rejected, tp_ran, tp_seen, tp_runs, tp_future, td_pc,
                 td_joined, td_queued>>

\* The worker loop with an exit as soon as stop_ is set: what the loop must
\* not be.
WorkerLocked_ExitOnStop(w) ==
  IF stop_
    THEN /\ workers_' = [workers_ EXCEPT ![w] = "exited"]
         /\ UNCHANGED <<tasks_, tw_task>>
  ELSE IF tasks_ = << >>
    THEN /\ workers_' = [workers_ EXCEPT ![w] = "sleep"]
         /\ UNCHANGED <<tasks_, tw_task>>
  ELSE /\ tw_task' = [tw_task EXCEPT ![w] = Head(tasks_)]
       /\ tasks_' = Tail(tasks_)
       /\ workers_' = [workers_ EXCEPT ![w] = "task"]

\* Worker loop, threadpool.cc:12-20, under queue_mutex_: wait while the pool
\* runs and the queue is empty; return when the pool is stopped and the
\* queue is empty; otherwise take the task at the front.
WorkerLocked(w) ==
  IF ~(stop_ \/ tasks_ # << >>)
    THEN /\ workers_' = [workers_ EXCEPT ![w] = "sleep"]
         /\ UNCHANGED <<tasks_, tw_task>>
  ELSE IF stop_ /\ tasks_ = << >>
    THEN /\ workers_' = [workers_ EXCEPT ![w] = "exited"]
         /\ UNCHANGED <<tasks_, tw_task>>
  ELSE /\ tw_task' = [tw_task EXCEPT ![w] = Head(tasks_)]
       /\ tasks_' = Tail(tasks_)
       /\ workers_' = [workers_ EXCEPT ![w] = "task"]

\* A worker at the top of its loop, or woken inside condition_.wait, gets
\* the mutex.
Worker_Wait(w) ==
  /\ UNCHANGED otherThanPool
  /\ workers_[w] = "lock"
  /\ WorkerLocked(w)
  /\ UNCHANGED <<stop_, ts_pc, tp_next, tp_kind, tp_accepted, tp_rejected,
                 tp_ran, tp_seen, tp_runs, tp_future, td_pc, td_joined,
                 td_queued>>

\* condition_.wait may return without a notification; the predicate is then
\* evaluated again under the mutex.
Worker_SpuriousWake(w) ==
  /\ UNCHANGED otherThanPool
  /\ workers_[w] = "sleep"
  /\ workers_' = [workers_ EXCEPT ![w] = "lock"]
  /\ UNCHANGED <<stop_, tasks_, tw_task, ts_pc, tp_next, tp_kind, tp_accepted,
                 tp_rejected, tp_ran, tp_seen, tp_runs, tp_future, td_pc,
                 td_joined, td_queued>>

\* A task whose exception leaves task() and ends the worker thread: what
\* running a task must not be.
RunTask_Escapes(w, k) ==
  IF tp_kind[k] = "throws"
    THEN /\ workers_' = [workers_ EXCEPT ![w] = "terminated"]
         /\ UNCHANGED tp_future
    ELSE /\ tp_future' = [tp_future EXCEPT ![k] = Ready(TaskResult(k))]
         /\ workers_' = [workers_ EXCEPT ![w] = "lock"]

\* A task whose result goes to the future of the task submitted first: what
\* running a task must not be.
RunTask_FirstFuture(w, k) ==
  /\ tp_future' = [tp_future EXCEPT ![1] =
       IF tp_kind[k] = "throws" THEN Thrown(TaskException(k))
                                ELSE Ready(TaskResult(k))]
  /\ workers_' = [workers_ EXCEPT ![w] = "lock"]

\* task(), threadpool.cc:21 with threadpool.hpp:20-30: the queued closure
\* calls the packaged_task, which runs the bound function and stores its
\* return value, or the exception it throws, in the shared state of the
\* task's own future; the worker goes back to the top of its loop.
RunTask(w, k) ==
  /\ tp_future' = [tp_future EXCEPT ![k] =
       IF tp_kind[k] = "throws" THEN Thrown(TaskException(k))
                                ELSE Ready(TaskResult(k))]
  /\ workers_' = [workers_ EXCEPT ![w] = "lock"]

Worker_Run(w) ==
  /\ UNCHANGED otherThanPool
  /\ workers_[w] = "task"
  /\ RunTask(w, tw_task[w])
  /\ tp_runs' = [tp_runs EXCEPT ![tw_task[w]] = @ + 1]
  /\ tp_ran' = Append(tp_ran, tw_task[w])
  /\ tw_task' = [tw_task EXCEPT ![w] = 0]
  /\ UNCHANGED <<stop_, tasks_, ts_pc, tp_next, tp_kind, tp_accepted,
                 tp_rejected, tp_seen, td_pc, td_joined, td_queued>>

\* ~ThreadPool, threadpool.cc:28-31: set stop_ under the mutex.
Destroy_Stop ==
  /\ UNCHANGED otherThanPool
  /\ td_pc = "alive"
  /\ stop_' = TRUE
  /\ td_pc' = "notify"
  /\ td_queued' = {k \in TaskIds : tp_future[k] = Pending}
  /\ UNCHANGED <<tasks_, workers_, tw_task, ts_pc, tp_next, tp_kind,
                 tp_accepted, tp_rejected, tp_ran, tp_seen, tp_runs, tp_future,
                 td_joined>>

\* ~ThreadPool, threadpool.cc:32: condition_.notify_all().
Destroy_NotifyAll ==
  /\ UNCHANGED otherThanPool
  /\ td_pc = "notify"
  /\ workers_' = [w \in PoolWorkers |->
                    IF workers_[w] = "sleep" THEN "lock" ELSE workers_[w]]
  /\ td_pc' = "join"
  /\ UNCHANGED <<stop_, tasks_, tw_task, ts_pc, tp_next, tp_kind, tp_accepted,
                 tp_rejected, tp_ran, tp_seen, tp_runs, tp_future, td_joined,
                 td_queued>>

\* The number of threads in workers_.
PoolSize == Cardinality({w \in PoolWorkers : workers_[w] # "none"})

\* ~ThreadPool, threadpool.cc:33-36: join the next worker of workers_, which
\* blocks until that thread has returned from its loop; after the last one
\* the destructor returns.
Destroy_Join ==
  /\ UNCHANGED otherThanPool
  /\ td_pc = "join"
  /\ td_joined < PoolSize
  /\ workers_[td_joined + 1] = "exited"
  /\ td_joined' = td_joined + 1
  /\ td_pc' = IF td_joined + 1 = PoolSize THEN "returned" ELSE "join"
  /\ UNCHANGED <<stop_, tasks_, workers_, tw_task, ts_pc, tp_next, tp_kind,
                 tp_accepted, tp_rejected, tp_ran, tp_seen, tp_runs, tp_future,
                 td_queued>>

NextPool ==
  \/ \E s \in Submitters : Enqueue_Lock(s)
  \/ \E s \in Submitters : Enqueue_Notify(s)
  \/ \E w \in PoolWorkers : Worker_Wait(w)
  \/ \E w \in PoolWorkers : Worker_SpuriousWake(w)
  \/ \E w \in PoolWorkers : Worker_Run(w)
  \/ Destroy_Stop
  \/ Destroy_NotifyAll
  \/ Destroy_Join

\* A pool constructed with any number of threads up to MaxPoolThreads.
InitSpecPool ==
  /\ InitChannel /\ InitZk /\ InitReg /\ config_map = CfgDocumented
  /\ InitServing /\ InitZc /\ InitApp
  /\ \E threads \in 0..MaxPoolThreads : PoolConstructed(threads)

SpecPool == InitSpecPool /\ [][NextPool]_vars

\* Every thread that can take a step takes it in the end: a submitter goes
\* on to its notify_one, a worker goes for the mutex and runs the task it
\* took, and a task returns or throws.
SpecPoolLive ==
  /\ SpecPool
  /\ \A s \in Submitters : WF_vars(Enqueue_Notify(s))
  /\ \A w \in PoolWorkers : WF_vars(Worker_Wait(w)) /\ WF_vars(Worker_Run(w))

(***************************************************************************)
(* Claims about registration, checked under SpecReg.                       *)
(***************************************************************************)
\* The endpoint the configuration advertises: the values of the documented
\* keys rpcserverip and rpcserverport.
AdvertisedEndpoint == <<Load("rpcserverip"), ":", Load("rpcserverport")>>

\* C8: once Run has finished registration (with the documented keys in the
\* configuration, no Create having logged an error, the session connected
\* and no other client having touched the store), every method m of every
\* service s given to NotifyService has an ephemeral node /s/m whose value is
\* the advertised "ip:port", under a persistent node /s.
C8_MethodsRegisteredAtAdvertisedEndpoint ==
  (/\ run_pc = "loop"
   /\ Load("rpcserverip") # ""
   /\ Load("rpcserverport") # ""
   /\ ~create_error_logged
   /\ zk_session = "connected"
   /\ foreign_steps = 0) =>
     \A i \in 1..Len(notified) :
       LET desc == Descriptor(notified[i])
       IN /\ znodes[ServicePath(desc.name)] = Node(<< >>, 0)
          /\ \A mn \in desc.methods :
               znodes[MethodPath(desc.name, mn)] = Node(AdvertisedEndpoint, 1)

\* C9: when registration has created the nodes of at least one service
\* without an error and the watcher has then been told that the session has
\* expired, the session-expired handler given to Start has been invoked.
C9_ExpiryInvokesHandler ==
  (/\ run_pc = "loop"
   /\ notified # << >>
   /\ ~create_error_logged
   /\ "ZOO_EXPIRED_SESSION_STATE" \in zk_seen) => cbCalls > 0

(***************************************************************************)
(* Claims about serving, checked under SpecServer.                         *)
(***************************************************************************)
\* The request names a method of a service in m_serviceMap.
Registered(req) ==
  /\ req.service \in ServiceNames
  /\ m_serviceMap[req.service].present
  /\ req.method \in m_serviceMap[req.service].m_methodMap

\* C1: a call with a valid request to a method of a registered service that
\* has returned has Failed() == false and its response is what the service's
\* handler wrote for that request; excepted is a receive timeout that struck
\* while the server still had work to do for the connection.
C1_RegisteredCallSucceeds ==
  \A c \in Conns :
    (/\ cl_pc[c] = "returned"
     /\ Registered(cl_req[c])
     /\ cl_result[c].errText = "recv timeout!" => cl_result[c].serverIdle) =>
       /\ ~cl_result[c].failed
       /\ cl_result[c].response =
            <<Handler(m_serviceMap[cl_req[c].service].m_service,
                      cl_req[c].method, cl_req[c].args)>>

\* C7: no two workers are inside HandleClientRequest for the same client
\* descriptor at the same time.
C7_OneHandlerPerSocket ==
  \A w1, w2 \in Workers :
    (w1 # w2 /\ w_pc[w1] # "idle" /\ w_pc[w2] # "idle") => w_fd[w1] # w_fd[w2]

(***************************************************************************)
(* Claims about ZkClient::Start, checked under SpecZk.                     *)
(***************************************************************************)
\* C10: Start returns only after the watcher has been called with the
\* connected state, and once the watcher has been called with it a Start
\* that is waiting can return (m_sem has been posted).
C10_StartReturnsOnceConnected ==
  /\ zk_pc = "returned" => "ZOO_CONNECTED_STATE" \in zk_seen
  /\ (zk_pc = "sem_wait" /\ "ZOO_CONNECTED_STATE" \in zk_seen) => m_sem > 0

(***************************************************************************)
(* Claims about the client channel, checked under SpecChannel.             *)
(***************************************************************************)
FailurePaths == {"serialize_request", "serialize_header", "endpoint_missing",
                 "endpoint_invalid", "socket", "connect", "send",
                 "recv_timeout", "recv_error", "parse"}

\* C2: when CallMethod has returned by any of its failure paths, the
\* controller's failed flag is true, its error text is not empty and done
\* has not been run.
C2_FailureSetsController ==
  \A t \in Callers :
    (pc[t] = "returned" /\ exitPath[t] \in FailurePaths) =>
       /\ controller[t].failed
       /\ controller[t].errText # ""
       /\ doneRuns[t] = 0

C2_Witness ==
  \E t \in Callers :
     /\ pc[t] = "returned"
     /\ exitPath[t] = "recv_timeout"
     /\ controller[t].errText = "recv timeout!"

\* C3: done is run at most once and only with the response populated; a
\* call with a non-null done that returned by the success path has run done
\* exactly once, and its controller is still not failed.
C3_DoneOnceOnSuccess ==
  \A t \in Callers :
    /\ doneRuns[t] =< 1
    /\ doneRuns[t] = 1 => (respSet[t] /\ pc[t] = "returned" /\ exitPath[t] = "ok")
    /\ (pc[t] = "returned" /\ exitPath[t] = "ok") =>
          /\ respSet[t]
          /\ ~controller[t].failed
          /\ done[t] => doneRuns[t] = 1

C3_Witness ==
  \E t \in Callers :
     pc[t] = "returned" /\ exitPath[t] = "ok" /\ done[t] /\ doneRuns[t] = 1

\* C4: the pool has no entry whose socket was seen to fail or was closed
\* after a failure, so a caller that looks its endpoint up under the lock
\* never finds a descriptor that is closed or whose socket has failed a
\* send, a receive or a parse.
C4_PoolHasNoFailedSocket ==
  \A t \in Callers :
    (pc[t] = "lookup" /\ m_connections[host_data[t]] # NoFd) =>
       /\ SockOf(m_connections[host_data[t]]) # 0
       /\ SockOf(m_connections[host_data[t]]) \notin sockFailed

\* C5: once every caller has returned, every socket that is still open is
\* the pool's entry for some endpoint (no socket leaks), and the pool holds
\* at most one entry per endpoint.
C5_NoPoolLeak ==
  (\A t \in Callers : pc[t] \in {"idle", "returned"}) =>
     /\ \A f \in FDs :
          fdSock[f] # 0 => \E h \in Endpoints : m_connections[h] = f
     /\ Cardinality({h \in Endpoints : m_connections[h] # NoFd})
          =< Cardinality(Endpoints)

\* C6: a thread that is at a registry read, socket(), connect(), send(),
\* recv() or close() does not hold m_mutex; the mutex is held only at the
\* map lookup, insert and erase.
IOSteps == {"resolve", "socket", "connect", "connect_close", "send", "recv",
            "close_err", "done"}
MapSteps == {"lookup", "insert", "erase"}

C6_MutexNotHeldAcrossIO ==
  /\ \A t \in Callers : pc[t] \in IOSteps => m_mutex # t
  /\ m_mutex # NoThread => pc[m_mutex] \in MapSteps

C6_Witness ==
  \E t \in Callers :
     m_mutex = t /\ pc[t] = "erase" /\ SockOf(clientfd[t]) = 0

(***************************************************************************)
(* Claims about ZkClient::Create and ZkClient::GetData, checked under      *)
(* SpecStore.                                                              *)
(***************************************************************************)
\* The library runs the completion of the exists, or of the create, of the
\* Create in progress.
ExistsCompletes ==
  /\ zc_pc = "create_wait"
  /\ zk_ops # << >>
  /\ Head(zk_ops).op = "exists"
  /\ zk_ops' # zk_ops

CreateCompletes ==
  /\ zc_pc = "create_wait"
  /\ zk_ops # << >>
  /\ Head(zk_ops).op = "create"
  /\ zk_ops' # zk_ops

\* The node Create(path, data, state) is to make.
NodeOf(call) ==
  Node(call.data, IF call.state = "ZOO_EPHEMERAL" THEN 1 ELSE 0)

\* Two Creates in a row with the same arguments, the first successful, with
\* no step of another client and no expiry of the session from the first
\* one's call to the second one's return.
SameCreateTwice(a, b) ==
  /\ a.kind = "create" /\ b.kind = "create"
  /\ a.path = b.path /\ a.data = b.data /\ a.state = b.state
  /\ a.rc = "ZOK"
  /\ b.foreign = a.begun
  /\ b.session # "expired"

\* What a completion of the Create in progress must do: when the exists
\* finds the node, set the promise to ZOK, queue no create and leave the
\* store as it is; when it finds none, queue a create with the call's path,
\* data and flags, or, when the library cannot queue it, end the call with
\* that code; when the create succeeds, add exactly that node.
CreateChainStep ==
  /\ (ExistsCompletes /\ ExistsRc(zc_call.path) = "ZOK")
       => /\ promise_rc' = "ZOK"
          /\ zk_ops' = << >>
          /\ znodes' = znodes
  /\ (ExistsCompletes /\ ExistsRc(zc_call.path) = "ZNONODE")
       => /\ \/ zk_ops' = <<[op |-> "create", path |-> zc_call.path,
                             data |-> zc_call.data, state |-> zc_call.state]>>
             \/ zk_ops' = << >> /\ promise_rc' = "ZMARSHALLINGERROR"
          /\ znodes' = znodes
  /\ (CreateCompletes /\ CreateRc(zc_call.path) = "ZOK")
       => /\ promise_rc' = "ZOK"
          /\ znodes' = [znodes EXCEPT ![zc_call.path] = NodeOf(zc_call)]

\* C11: Create is idempotent.  When the exists finds the node, Create
\* succeeds without queueing a create and leaves the node as it is;
\* otherwise it creates the node with the given data and flags; a Create
\* that ends with ZOK logs success; a second Create with the same
\* arguments leaves the store as the first one left it.
C11_CreateIdempotent ==
  /\ [][CreateChainStep]_vars
  /\ [](\A i \in 1..Len(zc_hist) :
          /\ (zc_hist[i].kind = "create" /\ zc_hist[i].rc = "ZOK")
               => zc_hist[i].log = "INFO"
          /\ (i > 1 /\ SameCreateTwice(zc_hist[i - 1], zc_hist[i]))
               => zc_hist[i].store = zc_hist[i - 1].store)

\* Create made the node with its data and flags, and the same Create was
\* called again and found it.
C11_Witness ==
  /\ Len(zc_hist) = 2
  /\ SameCreateTwice(zc_hist[1], zc_hist[2])
  /\ zc_hist[2].rc = "ZOK"
  /\ zc_hist[1].data = Ep1
  /\ zc_hist[1].store[zc_hist[1].path] = NodeOf(zc_hist[1])

\* C12: when another client creates the node between the exists of a Create
\* (which found no node) and its create, so that the create reports
\* ZNODEEXISTS, Create treats the outcome as success: it logs the success
\* line and no error.
C12_ConcurrentCreateIsSuccess ==
  \A i \in 1..Len(zc_hist) :
    (zc_hist[i].kind = "create" /\ zc_hist[i].rc = "ZNODEEXISTS")
      => zc_hist[i].log = "INFO"

\* A thread is blocked in future.get() of Create or GetData.
Waiting == zc_pc \in {"create_wait", "get_wait"}

\* The promise the waiting thread's future belongs to has a value.
Fulfilled ==
  \/ zc_pc = "create_wait" /\ promise_rc # "unset"
  \/ zc_pc = "get_wait" /\ promise_data.second # "unset"

\* A promise that has a value keeps it until the waiting thread takes it.
PromiseSetOnce ==
  /\ promise_rc # "unset"
       => \/ promise_rc' = promise_rc
          \/ zc_pc = "create_wait" /\ zc_pc' = "idle" /\ promise_rc' = "unset"
  /\ promise_data.second # "unset"
       => \/ promise_data' = promise_data
          \/ zc_pc = "get_wait" /\ zc_pc' = "idle" /\ promise_data' = NoData

\* C13: every call of Create and GetData returns.  A call whose operation
\* cannot be queued returns without waiting; while a thread waits, either
\* one operation of its chain is queued and its promise has no value, or
\* nothing is queued and the promise has been given its value, once; and
\* with the library running each queued completion the waiting thread
\* returns.
C13_EveryCallReturns ==
  /\ [](Waiting => (Len(zk_ops) = 1 /\ ~Fulfilled)
                     \/ (zk_ops = << >> /\ Fulfilled))
  /\ [](~Waiting => zk_ops = << >>
                      /\ promise_rc = "unset" /\ promise_data = NoData)
  /\ [](\A i \in 1..Len(zc_hist) :
          zc_hist[i].waited
            <=> zc_hist[i].rc \notin {"ZBADARGUMENTS", "ZINVALIDSTATE"})
  /\ [][PromiseSetOnce]_vars
  /\ (Waiting ~> ~Waiting)

\* One call returned without waiting because it could not be queued, and
\* another waited and returned with the error its completion reported.
C13_Witness ==
  /\ Len(zc_hist) = 2
  /\ zc_hist[1].waited /\ zc_hist[1].rc \in {"ZCONNECTIONLOSS", "ZMARSHALLINGERROR"}
  /\ ~zc_hist[2].waited

\* C14: GetData returns the node's value when the read succeeds, and the
\* empty string when the path does not exist, when the read cannot be
\* queued, and when the completion reports any other error.
C14_GetDataValueOrEmpty ==
  \A i \in 1..Len(zc_hist) :
    zc_hist[i].kind = "get"
      => IF zc_hist[i].rc = "ZOK"
           THEN /\ zc_hist[i].served.exists
                /\ zc_hist[i].value = zc_hist[i].served.data
           ELSE zc_hist[i].value = << >>

\* GetData returned the endpoint stored at a path, and returned the empty
\* string for a path that did not exist.
C14_Witness ==
  /\ Len(zc_hist) = 2
  /\ zc_hist[1].kind = "get" /\ zc_hist[1].rc = "ZNONODE"
  /\ zc_hist[2].kind = "get" /\ zc_hist[2].rc = "ZOK"
  /\ zc_hist[2].value \in Endpoints

(***************************************************************************)
(* Claims about ThreadPool, checked under SpecPool and SpecPoolLive.       *)
(***************************************************************************)
\* The tasks enqueue accepted, and those it threw for.
Accepted == {tp_accepted[i] : i \in 1..Len(tp_accepted)}
Rejected == {r.task : r \in tp_rejected}
Queued == {tasks_[i] : i \in 1..Len(tasks_)}

\* C15: when ~ThreadPool returns, every task accepted before it began has
\* run to its end, with its future ready, and every worker thread has
\* returned from its loop.
C15_DestructorDrains ==
  td_pc = "returned"
    => /\ \A k \in Accepted :
            tp_runs[k] = 1 /\ tp_future[k].state \in {"value", "exception"}
       /\ tasks_ = << >>
       /\ \A w \in PoolWorkers : workers_[w] \in {"exited", "none"}

\* ~ThreadPool has returned, and two or more tasks had yet to run when it
\* began.
C15_Witness ==
  /\ td_pc = "returned"
  /\ Cardinality(td_queued) >= 2

\* C16: enqueue on a pool whose stop_ is set throws the runtime_error
\* "enqueue on stopped ThreadPool"; a task it threw for is never in the
\* queue, is never taken or run by a worker, and has no future.
C16_EnqueueOnStoppedFails ==
  /\ [][(stop_ /\ tp_next' # tp_next)
          => /\ [task |-> tp_next, what |-> StoppedError] \in tp_rejected'
             /\ tasks_' = tasks_]_vars
  /\ [](\A r \in tp_rejected :
          /\ r.what = StoppedError
          /\ r.task \notin Queued \cup Accepted
          /\ \A w \in PoolWorkers : tw_task[w] # r.task
          /\ tp_runs[r.task] = 0
          /\ tp_future[r.task] = NoFuture)

\* enqueue threw for a task, and the pool has since run all it had
\* accepted and has been destroyed.
C16_Witness ==
  /\ tp_rejected # {}
  /\ Accepted # {}
  /\ td_pc = "returned"

\* Where an accepted task is: in the queue, with a worker that took it, or
\* run.
Copies(k) ==
  Cardinality({i \in 1..Len(tasks_) : tasks_[i] = k})
    + Cardinality({w \in PoolWorkers : tw_task[w] = k})
    + tp_runs[k]

\* A wake-up is on its way to the workers: a submitter or the destructor is
\* about to notify, or a worker has left the wait and is going for the
\* mutex.
WakePending ==
  \/ \E s \in Submitters : ts_pc[s] = "notify"
  \/ \E w \in PoolWorkers : workers_[w] = "lock"
  \/ td_pc = "notify"

\* C17: every accepted task is executed exactly once and its future yields
\* its own result.  An accepted task is at every moment in exactly one
\* place (queued once, with one worker, or run once) and nothing else is
\* ever queued or run; a future that is ready holds the value or the
\* exception of its own task; no task stays queued while a worker sleeps
\* with no wake-up on its way; and every accepted task is run in the end.
C17_AcceptedRunsExactlyOnce ==
  /\ [](\A k \in TaskIds :
          /\ Copies(k) = (IF k \in Accepted THEN 1 ELSE 0)
          /\ tp_future[k].state = "pending" <=> (k \in Accepted /\ tp_runs[k] = 0)
          /\ tp_future[k].state = "value"
               => tp_kind[k] = "returns" /\ tp_future[k] = Ready(TaskResult(k))
          /\ tp_future[k].state = "exception"
               => tp_kind[k] = "throws" /\ tp_future[k] = Thrown(TaskException(k)))
  /\ []((tasks_ # << >> /\ Sleeping # {}) => WakePending)
  /\ \A k \in TaskIds : (k \in Accepted) ~> (tp_runs[k] = 1)

\* A pool of two workers has run every task once, in another order than
\* they were accepted in, and a task other than the first has put its own
\* result in its future.
C17_Witness ==
  /\ PoolSize = 2
  /\ Len(tp_accepted) = MaxTasks
  /\ \A k \in TaskIds : tp_runs[k] = 1
  /\ tp_ran # tp_accepted
  /\ \E k \in TaskIds : tp_future[k] = Ready(TaskResult(k)) /\ k > 1

\* C18: in a pool with one worker the tasks are run in the order in which
\* enqueue accepted them.
C18_OneWorkerRunsInOrder ==
  PoolSize = 1
    => /\ Len(tp_ran) =< Len(tp_accepted)
       /\ tp_ran = SubSeq(tp_accepted, 1, Len(tp_ran))

\* The one worker has run every task, the last of them before the second
\* submitting thread got to its notify_one.
C18_Witness ==
  /\ PoolSize = 1
  /\ Len(tp_ran) = MaxTasks
  /\ ts_pc[2] = "notify"

\* Task k was submitted after a task that threw had run.
AfterThrow(k) == \E j \in tp_seen[k] : tp_kind[j] = "throws"

\* C19: a task that throws does not stop its worker or the pool.  The
\* exception ends up in that task's future, no worker thread is ended by
\* it, and a task accepted after a throwing task has run is run as well.
C19_ThrowingTaskIsContained ==
  /\ [](\A k \in TaskIds :
          (tp_kind[k] = "throws" /\ tp_runs[k] > 0)
            => tp_future[k] = Thrown(TaskException(k)))
  /\ [](\A w \in PoolWorkers :
          workers_[w] \in {"none", "lock", "sleep", "task", "exited"})
  /\ [](\A w \in PoolWorkers : workers_[w] = "exited" => stop_)
  /\ \A k \in TaskIds :
       (k \in Accepted /\ AfterThrow(k)) ~> (tp_runs[k] = 1)

\* A task threw, its future holds the exception, and a task submitted after
\* that has returned its value through its own future.
C19_Witness ==
  \E k \in TaskIds :
    /\ AfterThrow(k)
    /\ tp_future[k] = Ready(TaskResult(k))
    /\ \E j \in tp_seen[k] : tp_future[j] = Thrown(TaskException(j))

(***************************************************************************)
(* Claims about requests for what is not registered, checked under         *)
(* SpecServer.                                                             *)
(***************************************************************************)
\* C20: a call that names a service or a method that is not in
\* m_serviceMap returns with Failed() == true and the text "recv error!",
\* the server has closed the connection, and no handler wrote a response;
\* excepted is a receive timeout that struck while the server still had
\* work to do for the connection.
C20_UnregisteredCallRefused ==
  \A c \in Conns :
    (/\ cl_pc[c] = "returned"
     /\ ~Registered(cl_req[c])
     /\ cl_result[c].errText = "recv timeout!" => cl_result[c].serverIdle) =>
       /\ cl_result[c].failed
       /\ cl_result[c].errText = "recv error!"
       /\ cl_result[c].response = << >>
       /\ outbound[c] = << >>
       /\ conn_srv[c] = "closed"

(***************************************************************************)
(* Claims about the receive timeout and the reuse of pooled connections,   *)
(* checked under SpecChannel and SpecChannelSeq.                           *)
(***************************************************************************)
\* The caller has sent its request on its own socket, waits in recv, and
\* the peer sends nothing.
WaitsOnSilentPeer(t) ==
  /\ pc[t] = "recv"
  /\ mySock[t] # 0
  /\ SockOf(clientfd[t]) = mySock[t]
  /\ resp[t] = "silent"

\* The return of a call whose receive timed out: the caller's socket is
\* closed and the pool has no entry for the endpoint of the call.
TimeoutReturnStep ==
  \A t \in Callers :
    (pc[t] = "erase" /\ pc'[t] = "returned" /\ exitPath[t] = "recv_timeout") =>
       /\ mySock[t] # 0 => \A f \in FDs : fdSock'[f] # mySock[t]
       /\ m_connections'[host_data[t]] = NoFd

\* C21: a call whose peer sends no response within the controller's
\* timeout returns: the receive of a caller that waits on a silent peer has
\* a deadline, whatever timeout the controller carries; the call that timed
\* out has Failed() true and the timeout text ("recv timeout!" in the code,
\* not the text of other receive errors), and on its return its socket is
\* closed and the pool has no entry for its endpoint.
C21_TimeoutFailsAndEvicts ==
  /\ [](\A t \in Callers :
          WaitsOnSilentPeer(t) => so_rcvtimeo[mySock[t]] # NoTimeout)
  /\ [](\A t \in Callers :
          (pc[t] = "returned" /\ exitPath[t] = "recv_timeout") =>
             /\ controller[t].failed
             /\ controller[t].errText = "recv timeout!"
             /\ controller[t].errText # "recv error!")
  /\ [][TimeoutReturnStep]_vars

\* The lookup of a call finds the endpoint's entry and takes it: the call
\* goes on to send on that descriptor and opens no socket.
ReuseStep ==
  (pc[SeqCaller] = "lookup" /\ pc'[SeqCaller] # "lookup"
     /\ m_connections[host_data[SeqCaller]] # NoFd) =>
       /\ clientfd'[SeqCaller] = m_connections[host_data[SeqCaller]]
       /\ pc'[SeqCaller] = "send"
       /\ nextSock' = nextSock

\* Between calls the open sockets are the entries of the pool, one for
\* each endpoint that has an entry.
PoolIsTheOpenSockets ==
  pc[SeqCaller] \in {"idle", "returned"} =>
     /\ \A f \in FDs : fdSock[f] # 0 => \E h \in Endpoints : m_connections[h] = f
     /\ \A h \in Endpoints : m_connections[h] # NoFd => SockOf(m_connections[h]) # 0
     /\ \A h, g \in Endpoints :
          (m_connections[h] # NoFd /\ m_connections[h] = m_connections[g]) => h = g

\* A successful call leaves the socket it ran on as the entry of its
\* endpoint.
SuccessKeepsEntry ==
  pc[SeqCaller] = "done" =>
     /\ m_connections[host_data[SeqCaller]] = clientfd[SeqCaller]
     /\ SockOf(clientfd[SeqCaller]) = mySock[SeqCaller]

\* The return of a call that ran on a socket whose server had restarted:
\* the stale socket is closed and the endpoint has a new, live entry.
StaleReturnStep ==
  (pc[SeqCaller] = "erase" /\ pc'[SeqCaller] = "returned"
     /\ mySock[SeqCaller] \in stale) =>
       /\ \A f \in FDs : fdSock'[f] # mySock[SeqCaller]
       /\ m_connections'[host_data[SeqCaller]] # NoFd
       /\ fdSock'[m_connections'[host_data[SeqCaller]]] \notin stale \cup {0}

\* C22: calls made one after the other from one channel reuse the pooled
\* socket of their endpoint, so that successful calls to one endpoint leave
\* one entry and one open socket; a call that meets an entry made stale by
\* a restart of the server closes it and leaves a new entry.
C22_ReuseThenReplaceStale ==
  /\ [][ReuseStep]_vars
  /\ [](PoolIsTheOpenSockets /\ SuccessKeepsEntry)
  /\ [][StaleReturnStep]_vars

(***************************************************************************)
(* Claims about the service map and the request frame, checked under       *)
(* SpecReg and SpecServer.                                                 *)
(***************************************************************************)
\* The calls of NotifyService so far that gave a service of this name.
NotifiedAs(sn) ==
  {i \in 1..Len(notified) : Descriptor(notified[i]).name = sn}

\* The service object the latest of them gave.
LastNotified(sn) ==
  notified[CHOOSE i \in NotifiedAs(sn) : \A j \in NotifiedAs(sn) : j =< i]

\* C23: when NotifyService was called more than once with services of one
\* name, the later call has overwritten the earlier entry: the map holds,
\* for every name, the handle and the method map of the service the latest
\* call gave, and that is what lookup and dispatch for the name use.
C23_LaterNotifyOverwrites ==
  \A sn \in ServiceNames :
    NotifiedAs(sn) # {} =>
       /\ m_serviceMap[sn].present
       /\ m_serviceMap[sn].m_service = LastNotified(sn)
       /\ m_serviceMap[sn].m_methodMap = Descriptor(LastNotified(sn)).methods

\* C24: the server goes on from reading a region of the frame only with
\* the whole region: a handler that has read the args and is about to look
\* the method up and parse the request holds exactly the args_size bytes
\* the header declared, and a handler that has read the header holds a
\* whole header.
C24_RegionsReadWhole ==
  \A w \in Workers :
    /\ w_pc[w] = "dispatch" => Len(w_args[w]) = w_hdr[w].n
    /\ w_pc[w] \in {"recv_args", "dispatch"} => w_hdr[w].kind = "header"

\* A handler that has read a header with args_size 0 leaves the reading of
\* the args by going on to the dispatch, with an empty args_str.
EmptyArgsStep ==
  \A w \in Workers :
    (w_pc[w] = "recv_args" /\ w_hdr[w].n = 0 /\ w_pc'[w] # "recv_args") =>
       /\ w_pc'[w] = "dispatch"
       /\ w_args'[w] = << >>
       /\ srv_fds' = srv_fds

\* C25: a request whose header declares args_size 0 is valid: the handler
\* goes on to deserialize the request from zero bytes and to dispatch the
\* method, and does not close the connection.
C25_EmptyArgsDispatched == [][EmptyArgsStep]_vars

\* A handler that has read a length prefix of 0 leaves the reading of the
\* header by closing the connection, and nothing is written to the client.
NoHeaderStep ==
  \A w \in Workers :
    (w_pc[w] = "recv_header" /\ w_hsize[w] = 0 /\ w_pc'[w] # "recv_header") =>
       /\ w_pc'[w] = "idle"
       /\ srv_fds'[w_fd[w]] = 0
       /\ outbound' = outbound

\* C26: a frame whose length prefix is 0 makes the server close the
\* connection: the handler that has read the prefix is not held up
\* waiting for bytes, its next step closes the descriptor, it never gets to
\* the args, the lookup or the call of a method, and no response is
\* written to the peer that sent the frame.
C26_ZeroPrefixClosed ==
  /\ [](\A w \in Workers :
          (w_pc[w] = "recv_header" /\ w_hsize[w] = 0) => ~RecvBlocks(w_fd[w]))
  /\ [](\A w \in Workers :
          w_pc[w] \in {"recv_args", "dispatch"} => w_hsize[w] # 0)
  /\ [](\A c \in Conns : cl_pc[c] \in {"raw", "gone"} => outbound[c] = << >>)
  /\ [][NoHeaderStep]_vars

(***************************************************************************)
(* Claims about the done closure of an invocation, checked under           *)
(* SpecServer.                                                             *)
(***************************************************************************)
\* The step in which a handler runs done: when the response serialized,
\* it is appended once to the connection the handler's clientfd names, and
\* nothing else is written.
DoneRunStep ==
  \A w \in Workers :
    w_done'[w].runs > w_done[w].runs =>
       /\ w_pc[w] = "method"
       /\ w_done[w].alive
       /\ w_done[w].fd = w_fd[w]
       /\ outbound' =
            IF w_done'[w].serialized /\ ConnOf(w_fd[w]) # 0
              THEN [outbound EXCEPT ![ConnOf(w_fd[w])] =
                      Append(@, Handler(m_serviceMap[w_hdr[w].service].m_service,
                                        w_hdr[w].method, w_args[w]))]
              ELSE outbound

StartCancelStep ==
  (Len(ctl_hist') > Len(ctl_hist) /\ ctl_hist'[Len(ctl_hist')] = "StartCancel")
    => /\ ctl'.failed = ctl.failed
       /\ ctl'.errText = ctl.errText
       /\ ctl'.timeout_ms = ctl.timeout_ms
C28_CancellationInert ==
  /\ [](\A i \in 1..Len(ctl_answers) : ctl_answers[i] = FALSE)
  /\ [][StartCancelStep]_vars

\* A failed controller with a timeout of its own was cancelled, a callback
\* was registered, and IsCanceled was asked after that.
C28_Witness ==
  /\ Len(ctl_hist) = MaxCtlOps
  /\ ctl_hist[1] = "SetFailed"
  /\ ctl_hist[2] = "StartCancel"
  /\ ctl_hist[3] = "IsCanceled"
  /\ ctl.failed
  /\ ctl_answers # << >>

\* C29: a load into a Pconfig that holds values replaces them: after a load
\* that read a file, Load gives for every key what that file alone gives, so
\* a key of both loads has the later value and a key of the earlier load
\* only is empty.
LastLoad == cfg_hist[Len(cfg_hist)]
C29_ReloadReplaces ==
  (cfg_hist # << >> /\ LastLoad.file.exists)
    => \A key \in ConfigKeys :
         Load(key) = LoadFrom(LoadConfigFile(EmptyMap, LastLoad.file), key)

\* C30: an object that acquire hands out from the idle queue has been reset
\* before the caller receives it: the caller sees none of what an earlier
\* holder wrote.
C30_IdleObjectsReset ==
  \A h \in Holders :
    h_from[h] = "queue"
      => /\ h_seen[h].after.id = h_seen[h].before.id
         /\ h_seen[h].after.value = 0
         /\ h_seen[h].after.data = ""

\* A holder received from the queue an object that carried what an earlier
\* holder wrote.
C30_Witness ==
  \E h \in Holders :
    /\ h_from[h] = "queue"
    /\ h_seen[h].before.value = 42
    /\ h_seen[h].before.data = "test"
    /\ h_obj[h].id = h_seen[h].before.id

(***************************************************************************)
(* Claims about the bytes CallMethod sends and receives, checked under     *)
(* SpecChannelSeq and SpecChannel.                                         *)
(***************************************************************************)
\* The send of a call returned a count below the frame's length: the call
\* is on its failure path, with the controller failed and close(clientfd)
\* next.
ShortWriteStep ==
  \A t \in Callers :
    (pc[t] = "send" /\ resp'[t] = "partial") =>
       /\ controller'[t].failed
       /\ pc'[t] = "close_err"

\* C31: CallMethod sends the frame in one write, and a write that accepts
\* fewer bytes than the frame has is fatal for the call: the controller is
\* failed and the connection is closed and removed from the pool; no caller
\* waits for a response to a frame that was sent in part.
C31_ShortWriteFatal ==
  /\ [][ShortWriteStep]_vars
  /\ [](\A t \in Callers : pc[t] = "recv" => resp[t] # "partial")

\* C34: CallMethod reads one chunk of up to 64 KiB: of a response of up to
\* 64 KiB that arrived in one chunk, all bytes were received and given to
\* the parser, and the call succeeded.
C34_ChunkUpTo64KiB ==
  \A t \in Callers :
    (resp_len[t] > 0 /\ resp_len[t] =< 64 * 1024) =>
       /\ recv_size[t] = resp_len[t]
       /\ respSet[t]
       /\ ~controller[t].failed

(***************************************************************************)
(* A claim about the pool's parallelism, checked under SpecPoolLive.       *)
(***************************************************************************)
\* The workers that are inside task().
Running == {w \in PoolWorkers : workers_[w] = "task"}

\* The tasks that a worker has taken from the queue, running or run.
Started == Len(tp_ran) + Cardinality(Running)

\* C32: a pool of N threads runs at most N tasks at the same time and is
\* work-conserving.  The pool has the N threads it was constructed with and
\* never more; at most N tasks are inside task() at a time, so that the
\* i-th accepted task is not started before i - N tasks have run to their
\* end (tasks of equal length run in batches of N); no task is queued
\* while a worker sleeps with no wake-up on its way; and every queued task
\* is taken from the queue.
C32_AtMostNWorkConserving ==
  /\ [][PoolSize' = PoolSize]_vars
  /\ [](/\ Cardinality(Running) =< PoolSize
        /\ \A i \in 1..Len(tp_accepted) :
             i =< Started => Len(tp_ran) >= i - PoolSize)
  /\ [](\A w \in PoolWorkers :
          (workers_[w] = "sleep" /\ tasks_ # << >>) => WakePending)
  /\ \A k \in TaskIds : (k \in Queued) ~> (k \notin Queued)

\* Both threads of a pool of two are inside task() while a third task waits
\* in the queue.
C32_Witness ==
  /\ PoolSize = 2
  /\ Cardinality(Running) = 2
  /\ tasks_ # << >>

(***************************************************************************)
(* Claims about Run's listening socket, checked under SpecReg.             *)
(***************************************************************************)
\* The method paths of the services NotifyService was called with.
NotifiedMethodPaths ==
  UNION {{MethodPath(Descriptor(notified[i]).name, mn) :
            mn \in Descriptor(notified[i]).methods} : i \in 1..Len(notified)}

\* The method nodes the provider's session has created.
OwnMethodNodes ==
  {path \in NotifiedMethodPaths : znodes[path].exists /\ znodes[path].owner = 1}

\* C33: with the keys rpcserverip and rpcserverport in the configuration,
\* the listening socket of Run is bound to the ip and port stored under
\* them, and every method node the provider has created holds that ip and
\* port.
C33_BindsAndAdvertisesConfiguredEndpoint ==
  (Load("rpcserverip") # "" /\ Load("rpcserverport") # "") =>
    /\ listening =>
         server_addr = [sin_addr |-> Load("rpcserverip"),
                        sin_port |-> Atoi(Load("rpcserverport"))]
    /\ \A path \in OwnMethodNodes : znodes[path].data = AdvertisedEndpoint

\* A step of Run that issues a Create of registration.
CreateIssued == run_pc = "register" /\ zk_ops' # zk_ops

Holding == {h \in Holders : h_obj[h] # NoObject}

\* C35: the number of objects the pool owns, idle in its queue plus held by
\* callers, never exceeds max_size.
C35_OwnedAtMostMaxSize == Len(available_) + Cardinality(Holding) =< MaxSize

\* No call of acquire is in progress; clear, a cleanup pass and a release
\* are single steps under the mutex.
Quiescent == \A h \in Holders : h_pc[h] = "idle"

\* C36: whenever no operation is in progress the statistics agree with the
\* pool: active_objects is the number of handles that hold an object,
\* current_size is the number of idle objects in the queue, and
\* total_created - total_destroyed = current_size + active_objects; and no
\* counter underflows at any time.
C36_StatisticsAgree ==
  /\ Quiescent =>
       /\ stats_.active_objects = Cardinality(Holding)
       /\ stats_.current_size = Len(available_)
       /\ stats_.total_created - stats_.total_destroyed =
            stats_.current_size + stats_.active_objects
  /\ ~Underflowed(stats_.current_size)
  /\ ~Underflowed(stats_.active_objects)

(***************************************************************************)
(* Claims about concurrent callers of one channel, checked under           *)
(* SpecChannel.                                                            *)
(***************************************************************************)
\* The callers that have sent a request and not yet received on it.
Outstanding == {t \in Callers : pc[t] = "recv"}

\* C37: no two concurrent calls have a request outstanding on the same
\* socket at the same time.
C37_OneOutstandingPerSocket ==
  \A t, u \in Outstanding :
    (t # u /\ SockOf(clientfd[t]) # 0) =>
      SockOf(clientfd[t]) # SockOf(clientfd[u])

\* The callers whose next step is a send, a recv or a close on clientfd.
AboutToUse == {t \in Callers : pc[t] \in {"send", "recv", "close_err"}}

\* C38: every socket is closed at most once and no call sends or receives
\* on a socket after some call has closed it: a call that is to send,
\* receive or close on its descriptor finds it open and naming the socket
\* the call obtained.
C38_NoUseAfterClose ==
  \A t \in AboutToUse :
    SockOf(clientfd[t]) # 0 /\ SockOf(clientfd[t]) = mySock[t]

(***************************************************************************)
(* A claim about the handlers of one descriptor, checked under SpecServer. *)
(***************************************************************************)
\* The workers inside HandleClientRequest.
Handling == {w \in Workers : w_pc[w] # "idle"}

\* C39: a handler never performs recv, send or close on its descriptor
\* after another handler has closed it: the descriptor of every handler
\* that is running is open.
C39_HandlerDescriptorOpen == \A w \in Handling : ConnOf(w_fd[w]) # 0
====
